---- MODULE Spec2Model ----
(***************************************************************************)
(* The agent execution loop of AutoGLM-GUI: AsyncAgentBase.stream() with   *)
(* its two step bodies, AsyncGLMAgent._execute_step (streamed text, "glm") *)
(* and AsyncGeminiAgent._execute_step (tool calls, "gemini"), together     *)
(* with cancel() and reset().                                              *)
(*                                                                         *)
(* One action of the model is the code that runs between two suspension    *)
(* points of the coroutine (an await on the device, on the model or on the *)
(* executor, or the yield of a step event to the consumer).  cancel() and  *)
(* reset() are other tasks of the same event loop: they run only while the *)
(* run is suspended, that is between two actions.                          *)
(***************************************************************************)
EXTENDS Integers, Sequences, FiniteSets, TLC

\* ------------------------------------------------------------------ bounds
MaxSteps == 2      \* largest agent_config.max_steps explored
MaxRuns == 2       \* stream() calls made on one agent instance
MaxChunks == 1     \* content chunks of one streamed model response
MaxLen == 4        \* tokens of a raw model output given to the DSL split
MaxThink == 2      \* tokens between the think tags of a tagged output
MaxAnswer == 3     \* tokens between the answer tags of a tagged output
MaxTasks == 2      \* tasks created on one SchedulerManager

VARIABLES
    variant,       \* "glm" (AsyncGLMAgent) or "gemini" (AsyncGeminiAgent)
    max_steps,     \* agent_config.max_steps
    script,        \* the model: the responses it gives to the calls of a run
    context,       \* self._context
    step_count,    \* self._step_count
    is_running,    \* self._is_running
    cancel_event,  \* self._cancel_event
    pc,            \* where the coroutine of stream() is suspended
    cur,           \* locals of the step in progress
    events,        \* the events the current run has yielded so far
    outcome,       \* how the last run left stream()
    runs,          \* history: stream() calls so far
    start_count,   \* history: step_count when the current run started
    calls,         \* history: model calls answered in the current run
    dispatched,    \* history: device actions dispatched in the current run
    cancel_at,     \* history: where the run was when cancel() was first invoked
    cancel_step,   \* history: step_count at that moment
    late_dispatch, \* history: a device action was dispatched after cancel()
    reset_midrun,  \* history: reset() was invoked while the run was active
    stream_open,   \* history: the response stream of a model call is not closed
    fn_in,         \* the input of a pure function under check (<<>> in a run)
    fn_out         \* what the function returned for it

agentVars == <<context, step_count, is_running, cancel_event>>
runVars == <<pc, cur, events, outcome>>
histVars == <<runs, start_count, calls, dispatched, cancel_at, cancel_step,
              late_dispatch, reset_midrun, stream_open>>
vars == <<variant, max_steps, script, context, step_count, is_running,
          cancel_event, pc, cur, events, outcome, runs, start_count, calls,
          dispatched, cancel_at, cancel_step, late_dispatch, reset_midrun,
          stream_open, fn_in, fn_out>>
pureVars == <<fn_in, fn_out>>

\* ------------------------------------------------------- conversation turns
Turn(role, img, id) == [role |-> role, img |-> img, id |-> id]

create_system_message == Turn("system", FALSE, 0)

create_user_message(has_image) == Turn("user", has_image, 0)

create_assistant_message == Turn("assistant", FALSE, 0)

\* mutant: stripping a turn turns it into a plain user turn
remove_images_from_message_AsUser(turn) == [turn EXCEPT !.img = FALSE, !.role = "user"]

remove_images_from_message(turn) == [turn EXCEPT !.img = FALSE]

\* mutant: the tool turn answers the call id after the one just made
ToolTurn_NextId(id, result) ==
    [role |-> "tool", img |-> FALSE, id |-> id + 1, success |-> result.success,
     message |-> IF result.message = "" THEN "OK" ELSE result.message]

\* the tool turn of the tool-call variant: tool_call_id call_<id>, content
\* json.dumps({"success": result.success, "message": result.message or "OK"})
ToolTurn(id, result) ==
    [role |-> "tool", img |-> FALSE, id |-> id, success |-> result.success,
     message |-> IF result.message = "" THEN "OK" ELSE result.message]

\* self._context[-1] = MessageBuilder.remove_images_from_message(self._context[-1])
StripLast(ctx) == [ctx EXCEPT ![Len(ctx)] = remove_images_from_message(ctx[Len(ctx)])]

\* ------------------------------------------------------------------ events
\* An event {"type": ..., "data": {...}}: step is data.step (data.steps of a
\* done event), action the _metadata of data.action ("none" for None).
Ev(type, step, action, finished, success, message) ==
    [type |-> type, step |-> step, action |-> action, finished |-> finished,
     success |-> success, message |-> message]

ErrorEvent(message) == Ev("error", 0, "none", FALSE, FALSE, message)

ThinkingEvent == Ev("thinking", 0, "none", FALSE, FALSE, "")

CancelledEvent == Ev("cancelled", 0, "none", FALSE, FALSE, "Task cancelled by user")

StepEvent(step, action, finished, success, message) ==
    Ev("step", step, action, finished, success, message)

DoneEvent(steps, success, message) ==
    Ev("done", steps, "none", FALSE, success, message)

\* mutant: the step event of a failure does not finish the run
FailedStep_Unfinished(step, message) == StepEvent(step, "none", FALSE, FALSE, message)

\* mutant: the step event of a failure reports success
FailedStep_Success(step, message) == StepEvent(step, "none", TRUE, TRUE, message)

\* the step event both step bodies yield after a device or model failure
FailedStep(step, message) == StepEvent(step, "none", TRUE, FALSE, message)

\* ------------------------------------------------- tool call -> action
\* A JSON value of a tool call: t is its Python type after json.loads
\* ("int", "float", "str", "bool", "null", "inf", "nan", "list"), v its
\* content (a float is held in tenths: 5007 is 500.7).
Val(t, v) == [t |-> t, v |-> v]

NoneVal == Val("null", 0)

\* The arguments of a tool call: a dict (m maps its keys to values) or any
\* other JSON value, which json.loads returns just as well.
Args(m) == [dict |-> TRUE, m |-> m]

NonDictArgs == [dict |-> FALSE, m |-> <<>>]

\* args.get(key): None when the key is absent
ArgGet(args, key) == IF key \in DOMAIN args.m THEN args.m[key] ELSE NoneVal

\* args.get(key, default): the value as it is, of whatever type
ArgGetDefault(args, key, default) ==
    IF key \in DOMAIN args.m THEN args.m[key] ELSE default

\* the texts the model's strings stand for: a str value holds an index
StrText(id) ==
    CASE id = 1 -> "model message"
      [] id = 2 -> "2 seconds"
      [] OTHER -> "other text"

\* the "message" of an action as the step event reports it: the text of a
\* string, "" for None, a mark for a value of another type passed through
MessageOf(val) ==
    CASE val.t = "str" -> StrText(val.v)
      [] val.t = "null" -> ""
      [] OTHER -> "non-string message"

\* "1 seconds", the default duration of wait
DefaultDuration == Val("str", 3)

Ok(val) == [exc |-> "none", val |-> val]

Raise(exc) == [exc |-> exc, val |-> 0]

\* mutant: floor instead of truncation (differs on negative floats)
IntOf_Floor(val) == IF val.t = "float" THEN val.v \div 10 ELSE val.v

\* int(val) of Python: truncation toward zero
IntOf(val) ==
    IF val.t = "float"
    THEN (IF val.v >= 0 THEN val.v \div 10 ELSE -((-val.v) \div 10))
    ELSE val.v

_require_int(args, key) ==
    IF ~args.dict THEN Raise("AttributeError")
    ELSE LET val == ArgGet(args, key) IN
         IF val.t = "null" THEN Raise("ValueError")
         ELSE IF val.t \notin {"int", "float", "bool", "inf", "nan"} THEN Raise("ValueError")
         ELSE IF val.t = "nan" THEN Raise("ValueError")
         ELSE IF val.t = "inf" THEN Raise("OverflowError")
         ELSE Ok(IntOf(val))

_require_str(args, key) ==
    IF ~args.dict THEN Raise("AttributeError")
    ELSE LET val == ArgGet(args, key) IN
         IF val.t = "null" THEN Raise("ValueError")
         ELSE IF val.t # "str" THEN Raise("ValueError")
         ELSE Ok(val.v)

ActionDict(metadata, name, params, message) ==
    [metadata |-> metadata, action |-> name, params |-> params, message |-> message]

FinishAction(message) == ActionDict("finish", "", <<>>, message)

\* a "do" action has no "message" key: action.get("message") is None
DoAction(name, params) == ActionDict("do", name, params, "")

\* evaluates the _require_* calls of one action literal left to right
RECURSIVE Require(_, _, _, _)
Require(args, keys, kind, acc) ==
    IF keys = <<>> THEN Ok(acc)
    ELSE LET r == IF kind = "int" THEN _require_int(args, Head(keys))
                  ELSE _require_str(args, Head(keys)) IN
         IF r.exc # "none" THEN r
         ELSE Require(args, Tail(keys), kind, Append(acc, r.val))

Built(name, r) == IF r.exc # "none" THEN r ELSE Ok(DoAction(name, r.val))

_build_action(tool_name, args) ==
    CASE tool_name = "tap" -> Built("Tap", Require(args, <<"x", "y">>, "int", <<>>))
      [] tool_name = "double_tap" -> Built("Double Tap", Require(args, <<"x", "y">>, "int", <<>>))
      [] tool_name = "long_press" -> Built("Long Press", Require(args, <<"x", "y">>, "int", <<>>))
      [] tool_name = "swipe" ->
            Built("Swipe", Require(args, <<"start_x", "start_y", "end_x", "end_y">>, "int", <<>>))
      [] tool_name = "type_text" -> Built("Type", Require(args, <<"text">>, "str", <<>>))
      [] tool_name = "launch_app" -> Built("Launch", Require(args, <<"app_name">>, "str", <<>>))
      [] tool_name = "back" -> Ok(DoAction("Back", <<>>))
      [] tool_name = "home" -> Ok(DoAction("Home", <<>>))
      [] tool_name = "wait" ->
            IF ~args.dict THEN Raise("AttributeError")
            ELSE Ok(DoAction("Wait", <<ArgGetDefault(args, "duration", DefaultDuration)>>))
      [] OTHER -> Ok(FinishAction("Unknown tool"))

\* the exceptions the except clause of tool_call_to_action names
MapperCaught == {"ValueError", "KeyError"}

tool_call_to_action(tool_name, arguments) ==
    IF tool_name = "finish"
    THEN (IF ~arguments.dict THEN Raise("AttributeError")
          ELSE IF "message" \in DOMAIN arguments.m
               THEN Ok(FinishAction(MessageOf(arguments.m["message"])))
               ELSE Ok(FinishAction("Task completed")))
    ELSE LET r == _build_action(tool_name, arguments) IN
         IF r.exc \in MapperCaught THEN Ok(FinishAction("Invalid tool call"))
         ELSE r

\* ----------------------------------------------------- model responses
\* What the model answers to one call.  "do": a well-formed device action;
\* "finish": the finish action; "malformed": an action text the parser
\* rejects (glm) or a tool call lacking a required argument (gemini);
\* "nondict" and "inf" (gemini): a tool call whose arguments are valid JSON
\* but not an object, or hold the number Infinity; "fail": the call raises.
Kinds == {"do", "finish", "malformed", "nondict", "inf", "fail"}

\* the kinds a run is driven with ("inf" takes the same path as "nondict")
KindsOf(v) ==
    IF v = "gemini"
    THEN {"do", "finish", "malformed", "nondict", "fail"}
    ELSE {"do", "finish", "malformed", "fail"}

\* the tool call (name, arguments) a response of each kind carries
ToolCallOf(kind) ==
    CASE kind = "do" -> <<"tap", Args([k \in {"x", "y"} |-> Val("int", 5)])>>
      [] kind = "finish" -> <<"finish", Args([k \in {"message"} |-> Val("str", 1)])>>
      [] kind = "malformed" -> <<"tap", Args([k \in {"x"} |-> Val("int", 5)])>>
      [] kind = "nondict" -> <<"finish", NonDictArgs>>
      [] kind = "inf" -> <<"tap", Args([k \in {"x", "y"} |-> Val("inf", 0)])>>

\* GLMParser.parse(action_str): the action, or ValueError for a malformed text
GLMParse(kind) ==
    CASE kind = "do" -> Ok(DoAction("Tap", <<5, 5>>))
      [] kind = "finish" -> Ok(FinishAction("model message"))
      [] OTHER -> Raise("ValueError")

\* mutant: the fallback finish carries a default message, not the raw text
GLMNormalize_DefaultMessage(kind) ==
    LET r == GLMParse(kind) IN
    IF r.exc = "ValueError" THEN Ok(FinishAction("Task completed")) ELSE r

\* step 4 of AsyncGLMAgent._execute_step: parse, ValueError falls back to finish
GLMNormalize(kind) ==
    LET r == GLMParse(kind) IN
    IF r.exc = "ValueError" THEN Ok(FinishAction("raw action text")) ELSE r

\* step 3 of AsyncGeminiAgent._execute_step: no try around the mapper
GeminiNormalize(kind) ==
    LET tc == ToolCallOf(kind) IN tool_call_to_action(tc[1], tc[2])

\* the response the model gives to the n-th call of a run: "do" up to
\* position script.at, script.kind there (a run never calls the model again
\* after a response that is not "do")
ResponseAt(n) == IF n = script.at THEN script.kind ELSE "do"

\* ---------------------------------------------------------- the executor
\* ActionHandler.execute returns an ActionResult (success, should_finish,
\* message) or raises; message is "" for None
ActionResult(success, should_finish, message) ==
    [success |-> success, should_finish |-> should_finish, message |-> message]

ExecReturns == {ActionResult(s, f, "") : s \in BOOLEAN, f \in BOOLEAN}

\* mutant: the synthetic result of a raising executor lets the run go on
ExecRaised_Continue == ActionResult(FALSE, FALSE, "executor error")

\* except Exception around execute: ActionResult(False, True, str(e))
ExecRaised == ActionResult(FALSE, TRUE, "executor error")

\* result.message or action.get("message")
StepMessage(result, action) ==
    IF result.message # "" THEN result.message ELSE action.message

\* mutant: only the executor's should_finish ends the run
StepFinished_ExecutorOnly(result, action) == result.should_finish

\* mutant: only the finish action ends the run
StepFinished_FinishOnly(result, action) == action.metadata = "finish"

\* finished = action.get("_metadata") == "finish" or result.should_finish
StepFinished(result, action) ==
    action.metadata = "finish" \/ result.should_finish

\* ------------------------------------------------------------------- Init
NoAction == ActionDict("none", "", <<>>, "")

\* no executor result yet
NoResult == ActionResult(FALSE, FALSE, "no result")

NoCur == [kind |-> "none", think |-> FALSE, chunks |-> 0, action |-> NoAction,
          result |-> NoResult, finished |-> FALSE]

\* the scripts that differ for a run of at most m steps: all "do", or the
\* first other response at one of the positions 1..m+1
Scripts(v, m) ==
    {[at |-> 0, kind |-> "do"]} \cup
    {[at |-> a, kind |-> k] : a \in 1..(m + 1), k \in KindsOf(v) \ {"do"}}

\* the agent right after __init__
Constructed ==
    /\ context = <<create_system_message>>
    /\ step_count = 0
    /\ is_running = FALSE
    /\ cancel_event = FALSE
    /\ pc = "idle"
    /\ cur = NoCur
    /\ events = <<>>
    /\ outcome = "none"
    /\ runs = 0
    /\ start_count = 0
    /\ calls = 0
    /\ dispatched = 0
    /\ cancel_at = "none"
    /\ cancel_step = 0
    /\ late_dispatch = FALSE
    /\ reset_midrun = FALSE
    /\ stream_open = FALSE

Init ==
    /\ variant \in {"glm", "gemini"}
    /\ max_steps \in 0..MaxSteps
    /\ script \in Scripts(variant, max_steps)
    /\ Constructed
    /\ fn_in = <<>>
    /\ fn_out = <<>>

\* ------------------------------------------- pieces of stream()'s control
\* leaving stream(): the finally clause clears _is_running
Terminate(evs, how) ==
    /\ pc' = "idle"
    /\ events' = evs
    /\ outcome' = how
    /\ is_running' = FALSE
    /\ cur' = NoCur

\* except asyncio.CancelledError: yield cancelled, raise
RaiseCancelled(evs) == Terminate(Append(evs, CancelledEvent), "cancelled")

\* the coroutine stops at its next await or at the yield of a step event
Suspend(p, evs) ==
    /\ pc' = p
    /\ events' = evs
    /\ outcome' = outcome
    /\ is_running' = is_running

\* the check at the head of AsyncGeminiAgent._call_llm_with_tools
CallLLMWithTools(evs) ==
    IF cancel_event
    THEN RaiseCancelled(evs)
    ELSE Suspend("llm", evs) /\ cur' = NoCur

\* a step body from its entry to its first await
ExecuteStepEntry(ctx, evs) ==
    /\ step_count' = step_count + 1
    /\ context' = ctx
    /\ IF variant = "glm" \/ step_count + 1 > 1
       THEN Suspend("step_obs", evs) /\ cur' = NoCur
       ELSE CallLLMWithTools(evs)

\* mutant: the bound compared with <= (one step too many)
LoopCondition_OffByOne == step_count <= max_steps /\ is_running

\* while self._step_count < self.agent_config.max_steps and self._is_running
LoopCondition == step_count < max_steps /\ is_running

\* the head of the while loop of stream(), reached with context ctx
LoopHead(ctx, evs) ==
    IF LoopCondition
    THEN IF cancel_event
         THEN RaiseCancelled(evs) /\ context' = ctx /\ step_count' = step_count
         ELSE ExecuteStepEntry(ctx, evs)
    ELSE /\ Terminate(Append(evs, DoneEvent(step_count, FALSE, "Max steps reached")),
                      "returned")
         /\ context' = ctx
         /\ step_count' = step_count

\* _prepare_initial_context of both variants: a user turn with the screenshot
PrepareInitialContext(ctx) == Append(ctx, create_user_message(TRUE))

\* the error event and the finishing step event of a failed step
StepFails(message) ==
    /\ Suspend("step_yield",
               events \o <<ErrorEvent(message), FailedStep(step_count, message)>>)
    /\ cur' = NoCur

\* ---------------------------------------------------------------- actions
\* mutant: stream() does not clear the cancel flag when it starts
Stream_KeepsCancelFlag ==
    /\ pc = "idle"
    /\ runs < MaxRuns
    /\ is_running' = TRUE
    /\ cancel_event' = cancel_event
    /\ pc' = "init_obs"
    /\ events' = <<>>
    /\ outcome' = "none"
    /\ cur' = NoCur
    /\ runs' = runs + 1
    /\ start_count' = step_count
    /\ calls' = 0
    /\ dispatched' = 0
    /\ cancel_at' = "none"
    /\ cancel_step' = 0
    /\ late_dispatch' = FALSE
    /\ reset_midrun' = FALSE
    /\ UNCHANGED <<variant, max_steps, script, context, step_count, stream_open>>
    /\ UNCHANGED pureVars

\* stream() up to its first await
Stream ==
    /\ pc = "idle"
    /\ runs < MaxRuns
    /\ is_running' = TRUE
    /\ cancel_event' = FALSE
    /\ pc' = "init_obs"
    /\ events' = <<>>
    /\ outcome' = "none"
    /\ cur' = NoCur
    /\ runs' = runs + 1
    /\ start_count' = step_count
    /\ calls' = 0
    /\ dispatched' = 0
    /\ cancel_at' = "none"
    /\ cancel_step' = 0
    /\ late_dispatch' = FALSE
    /\ reset_midrun' = FALSE
    /\ UNCHANGED <<variant, max_steps, script, context, step_count, stream_open>>
    /\ UNCHANGED pureVars

\* the first observation of stream(): get_screenshot and get_current_app
InitObserve ==
    /\ pc = "init_obs"
    /\ \E ok \in BOOLEAN :
          IF ok
          THEN LoopHead(PrepareInitialContext(context), events)
          ELSE /\ Terminate(events \o <<ErrorEvent("Device error"),
                                        DoneEvent(0, FALSE, "Device error")>>,
                            "returned")
               /\ UNCHANGED <<context, step_count>>
    /\ UNCHANGED <<variant, max_steps, script, cancel_event>>
    /\ UNCHANGED histVars
    /\ UNCHANGED pureVars

\* the observation of a step: every glm step, gemini steps after the first
StepObserve ==
    /\ pc = "step_obs"
    /\ \E ok \in BOOLEAN :
          IF ok
          THEN /\ context' = Append(context, create_user_message(TRUE))
               /\ IF variant = "glm"
                  THEN Suspend("llm_open", events) /\ cur' = NoCur
                  ELSE CallLLMWithTools(events)
          ELSE StepFails("Device error") /\ UNCHANGED context
    /\ UNCHANGED <<variant, max_steps, script, step_count, cancel_event>>
    /\ UNCHANGED histVars
    /\ UNCHANGED pureVars

\* the cancellation checks inside the streamed model call: _stream_openai
\* after it received a chunk, _execute_step after it received chunk data
CancelSeenInStream == cancel_event

\* mutant: the cancellation is raised with the stream left as it is
CancelInStream_NoClose(evs) ==
    /\ RaiseCancelled(evs)
    /\ stream_open' = stream_open

\* _stream_openai sees the flag: await stream.close(); raise CancelledError
CancelInStream(evs) ==
    /\ RaiseCancelled(evs)
    /\ stream_open' = FALSE

\* glm: openai_client.chat.completions.create(stream=True) returns the
\* stream or raises.  A failing model call raises here or while a later
\* chunk is read.
OpenStream ==
    /\ pc = "llm_open"
    /\ calls' = calls + 1
    /\ LET kind == ResponseAt(calls + 1) IN
       \/ /\ kind = "fail"
          /\ StepFails("Model error")
          /\ stream_open' = stream_open
       \/ \E n \in 1..MaxChunks :
             /\ Suspend("llm_stream", events)
             /\ cur' = [NoCur EXCEPT !.kind = kind, !.chunks = n]
             /\ stream_open' = TRUE
    /\ UNCHANGED <<variant, max_steps, script, context, step_count, cancel_event>>
    /\ UNCHANGED <<runs, start_count, dispatched, cancel_at, cancel_step,
                   late_dispatch, reset_midrun>>
    /\ UNCHANGED pureVars

\* glm: one chunk of the stream arrives, or reading it raises (the last
\* chunk of a failing model call): the finally clause of _stream_openai
\* closes the stream and _execute_step reports the model error
StreamChunk ==
    /\ pc = "llm_stream"
    /\ cur.chunks > 0
    /\ IF cur.kind = "fail" /\ cur.chunks = 1
       THEN StepFails("Model error") /\ stream_open' = FALSE
       ELSE IF CancelSeenInStream
       THEN CancelInStream(events)
       ELSE \E th \in BOOLEAN :
               /\ Suspend("llm_stream",
                          IF th THEN Append(events, ThinkingEvent) ELSE events)
               /\ cur' = [cur EXCEPT !.chunks = @ - 1, !.think = @ \/ th]
               /\ stream_open' = stream_open
    /\ UNCHANGED <<variant, max_steps, script, context, step_count, cancel_event>>
    /\ UNCHANGED <<runs, start_count, calls, dispatched, cancel_at, cancel_step,
                   late_dispatch, reset_midrun>>
    /\ UNCHANGED pureVars

\* asyncio.to_thread(self.action_handler.execute, action, ...) starts
Dispatch(action, evs) ==
    /\ Suspend("executing", evs)
    /\ dispatched' = dispatched + (IF action.metadata = "do" THEN 1 ELSE 0)
    /\ late_dispatch' = (late_dispatch \/ (action.metadata = "do" /\ cancel_at # "none"))

\* glm: the stream ends and the finally clause of _stream_openai closes it;
\* the text is parsed and the action handed to the executor
StreamEnd ==
    /\ pc = "llm_stream"
    /\ cur.chunks = 0
    /\ LET r == GLMNormalize(cur.kind) IN
          /\ cur' = [cur EXCEPT !.action = r.val]
          /\ Dispatch(r.val, events)
    /\ stream_open' = FALSE
    /\ UNCHANGED <<variant, max_steps, script, context, step_count, cancel_event>>
    /\ UNCHANGED <<runs, start_count, calls, cancel_at, cancel_step, reset_midrun>>
    /\ UNCHANGED pureVars

\* gemini: the completion call returns or raises; the tool call is mapped
LLMReturn ==
    /\ pc = "llm"
    /\ calls' = calls + 1
    /\ LET kind == ResponseAt(calls + 1) IN
       IF kind = "fail"
       THEN StepFails("Model error")
       ELSE \E th \in BOOLEAN :
               LET evs == IF th THEN Append(events, ThinkingEvent) ELSE events
                   r == GeminiNormalize(kind)
               IN IF r.exc # "none"
                  THEN Terminate(evs, "crashed")
                  ELSE /\ Suspend("exec_shot", evs)
                       /\ cur' = [NoCur EXCEPT !.kind = kind, !.think = th,
                                               !.action = r.val]
    /\ UNCHANGED <<variant, max_steps, script, context, step_count, cancel_event>>
    /\ UNCHANGED <<runs, start_count, dispatched, cancel_at, cancel_step,
                   late_dispatch, reset_midrun, stream_open>>
    /\ UNCHANGED pureVars

\* steps 5/6 to 8 of both step bodies: record the turns, yield the step event
RecordStep(result) ==
    /\ context' =
          IF variant = "glm"
          THEN Append(StripLast(context), create_assistant_message)
          ELSE (IF Len(context) > 1 THEN StripLast(context) ELSE context)
               \o <<Turn("assistant", FALSE, step_count), ToolTurn(step_count, result)>>
    /\ Suspend("step_yield",
               Append(events, StepEvent(step_count, cur.action.metadata,
                                        StepFinished(result, cur.action),
                                        result.success,
                                        StepMessage(result, cur.action))))
    /\ cur' = [NoCur EXCEPT !.result = result]

\* gemini: the screenshot taken for its dimensions right before execute
ExecScreenshot ==
    /\ pc = "exec_shot"
    /\ \E ok \in BOOLEAN :
          IF ok
          THEN /\ Dispatch(cur.action, events)
               /\ UNCHANGED <<context, cur>>
          ELSE /\ RecordStep(ExecRaised)
               /\ UNCHANGED <<dispatched, late_dispatch>>
    /\ UNCHANGED <<variant, max_steps, script, step_count, cancel_event>>
    /\ UNCHANGED <<runs, start_count, calls, cancel_at, cancel_step, reset_midrun,
                   stream_open>>
    /\ UNCHANGED pureVars

\* the executor returns a result or raises
ExecuteDone ==
    /\ pc = "executing"
    /\ \E result \in ExecReturns \cup {ExecRaised} : RecordStep(result)
    /\ UNCHANGED <<variant, max_steps, script, step_count, cancel_event>>
    /\ UNCHANGED histVars
    /\ UNCHANGED pureVars

\* mutant: the done event carries the default message, not the step's
FinishDone_DefaultMessage(last) == DoneEvent(step_count, last.success, "Task completed")

\* the done event that follows a finishing step event
FinishDone(last) == DoneEvent(step_count, last.success, last.message)

\* the consumer asks for the event after a step event
Resume ==
    /\ pc = "step_yield"
    /\ LET last == events[Len(events)] IN
       IF last.finished
       THEN /\ Terminate(Append(events, FinishDone(last)), "returned")
            /\ UNCHANGED <<context, step_count>>
       ELSE LoopHead(context, events)
    /\ UNCHANGED <<variant, max_steps, script, cancel_event>>
    /\ UNCHANGED histVars
    /\ UNCHANGED pureVars

\* where a run is when cancel() is invoked
CancelPoint ==
    IF pc = "step_yield"
    THEN (IF events[Len(events)].finished THEN "after_finish" ELSE "between_steps")
    ELSE pc

\* cancel(), from another task, at any time (skipped where it changes nothing)
Cancel ==
    /\ ~(cancel_event /\ ~is_running)
    /\ cancel_event' = TRUE
    /\ is_running' = FALSE
    /\ IF pc # "idle" /\ cancel_at = "none"
       THEN cancel_at' = CancelPoint /\ cancel_step' = step_count
       ELSE UNCHANGED <<cancel_at, cancel_step>>
    /\ UNCHANGED <<variant, max_steps, script, context, step_count>>
    /\ UNCHANGED runVars
    /\ UNCHANGED <<runs, start_count, calls, dispatched, late_dispatch, reset_midrun,
                   stream_open>>
    /\ UNCHANGED pureVars

\* mutant: reset() leaves step_count as it is
Reset_KeepsStepCount ==
    /\ \/ context # <<create_system_message>>
       \/ step_count # 0
       \/ is_running
       \/ cancel_event
    /\ context' = <<create_system_message>>
    /\ step_count' = step_count
    /\ is_running' = FALSE
    /\ cancel_event' = FALSE
    /\ reset_midrun' = (reset_midrun \/ pc # "idle")
    /\ UNCHANGED <<variant, max_steps, script>>
    /\ UNCHANGED runVars
    /\ UNCHANGED <<runs, start_count, calls, dispatched, cancel_at, cancel_step,
                   late_dispatch, stream_open>>
    /\ UNCHANGED pureVars

\* reset(), at any time (skipped where it changes nothing)
Reset ==
    /\ \/ context # <<create_system_message>>
       \/ step_count # 0
       \/ is_running
       \/ cancel_event
    /\ context' = <<create_system_message>>
    /\ step_count' = 0
    /\ is_running' = FALSE
    /\ cancel_event' = FALSE
    /\ reset_midrun' = (reset_midrun \/ pc # "idle")
    /\ UNCHANGED <<variant, max_steps, script>>
    /\ UNCHANGED runVars
    /\ UNCHANGED <<runs, start_count, calls, dispatched, cancel_at, cancel_step,
                   late_dispatch, stream_open>>
    /\ UNCHANGED pureVars

Next ==
    \/ Stream
    \/ InitObserve
    \/ StepObserve
    \/ OpenStream
    \/ StreamChunk
    \/ StreamEnd
    \/ LLMReturn
    \/ ExecScreenshot
    \/ ExecuteDone
    \/ Resume
    \/ Cancel
    \/ Reset

Spec == Init /\ [][Next]_vars

TypeOK ==
    /\ pc \in {"idle", "init_obs", "step_obs", "llm_open", "llm_stream", "llm",
               "exec_shot", "executing", "step_yield"}
    /\ outcome \in {"none", "returned", "cancelled", "crashed"}
    /\ step_count \in Nat
    /\ Len(context) >= 1

\* ============================== the tool-call mapper as a function of its input
\* the tools of DEVICE_TOOLS and one name that is none of them
KnownTools == {"tap", "double_tap", "long_press", "swipe", "type_text",
               "launch_app", "back", "home", "wait", "finish"}

ToolNames == KnownTools \cup {"scroll"}

\* the parameters each tool's schema declares (all of them required)
IntKeys(name) ==
    CASE name \in {"tap", "double_tap", "long_press"} -> {"x", "y"}
      [] name = "swipe" -> {"start_x", "start_y", "end_x", "end_y"}
      [] OTHER -> {}

StrKeys(name) ==
    CASE name = "type_text" -> {"text"}
      [] name = "launch_app" -> {"app_name"}
      [] name = "wait" -> {"duration"}
      [] name = "finish" -> {"message"}
      [] OTHER -> {}

KeysOf(name) == IntKeys(name) \cup StrKeys(name)

\* the JSON values an argument is drawn from: integers, floats (500.7, 300.2,
\* -1.5), strings, true, null, Infinity, NaN, a list
ArgValues ==
    {Val("int", 5), Val("float", 5007), Val("float", 3002), Val("float", -15),
     Val("str", 1), Val("str", 2), Val("bool", 1), NoneVal, Val("inf", 0),
     Val("nan", 0), Val("list", 0)}

\* marks a key the arguments do not hold
Absent == Val("absent", 0)

\* the dict that holds the keys f does not mark absent
DictOf(f) == Args([k \in {j \in DOMAIN f : f[j] # Absent} |-> f[k]])

\* the arguments values tried for a tool: a dict over its parameters, or a
\* JSON value that is not an object
ArgumentsFor(name) ==
    {DictOf(f) : f \in [KeysOf(name) -> ArgValues \cup {Absent}]} \cup {NonDictArgs}

\* the mapper has not been applied yet
NotMapped == [exc |-> "pending", val |-> 0]

MapperInit ==
    /\ variant = "gemini"
    /\ max_steps = 0
    /\ script = [at |-> 0, kind |-> "do"]
    /\ Constructed
    /\ \E name \in ToolNames : \E arguments \in ArgumentsFor(name) :
          fn_in = [tool_name |-> name, arguments |-> arguments]
    /\ fn_out = NotMapped

\* action = tool_call_to_action(tool_name, tool_args)
MapToolCall ==
    /\ fn_out.exc = "pending"
    /\ fn_out' = tool_call_to_action(fn_in.tool_name, fn_in.arguments)
    /\ UNCHANGED <<variant, max_steps, script, fn_in>>
    /\ UNCHANGED agentVars
    /\ UNCHANGED runVars
    /\ UNCHANGED histVars

MapperNext == MapToolCall

MapperSpec == MapperInit /\ [][MapperNext]_vars

\* ======================= the DSL split of a raw model output (glm variant)
\* A text is a sequence of tokens: the characters "f", "d", "(", "x", " "
\* (a blank) and the four tags, each tag one token.  The marker
\* finish(message= is spelled "f(", the marker do(action= is spelled "d(".
Chars == {"f", "d", "(", "x", " "}

TagTokens == {"<think>", "</think>", "<answer>", "</answer>"}

Alphabet == Chars \cup TagTokens

FinishMarker == <<"f", "(">>

DoMarker == <<"d", "(">>

Whitespace == {" "}

\* the texts of at most n tokens over the token set A
Texts(A, n) == UNION {[1..k -> A] : k \in 0..n}

\* sub occurs in s at position i
OccursAt(s, sub, i) ==
    /\ i + Len(sub) - 1 <= Len(s)
    /\ SubSeq(s, i, i + Len(sub) - 1) = sub

\* sub in s
Contains(s, sub) == \E i \in 1..Len(s) : OccursAt(s, sub, i)

\* s.find(sub), for a sub that occurs in s
Find(s, sub) ==
    CHOOSE i \in 1..Len(s) :
       OccursAt(s, sub, i) /\ \A j \in 1..(i - 1) : ~OccursAt(s, sub, j)

\* s.split(sub, 1), for a sub that occurs in s
SplitOnce(s, sub) ==
    LET i == Find(s, sub) IN
    <<SubSeq(s, 1, i - 1), SubSeq(s, i + Len(sub), Len(s))>>

RECURSIVE LStrip(_)
LStrip(s) == IF s # <<>> /\ Head(s) \in Whitespace THEN LStrip(Tail(s)) ELSE s

RECURSIVE RStrip(_)
RStrip(s) ==
    IF s # <<>> /\ s[Len(s)] \in Whitespace THEN RStrip(SubSeq(s, 1, Len(s) - 1)) ELSE s

\* s.strip()
Strip(s) == RStrip(LStrip(s))

\* s.replace(tag, ""), for a tag of one token
RemoveTag(s, tag) == SelectSeq(s, LAMBDA c : c # tag)

Parsed(thinking, action) == [done |-> TRUE, thinking |-> thinking, action |-> action]

_parse_raw_response(content) ==
    IF Contains(content, FinishMarker)
    THEN LET parts == SplitOnce(content, FinishMarker) IN
         Parsed(Strip(parts[1]), FinishMarker \o parts[2])
    ELSE IF Contains(content, DoMarker)
    THEN LET parts == SplitOnce(content, DoMarker) IN
         Parsed(Strip(parts[1]), DoMarker \o parts[2])
    ELSE IF Contains(content, <<"<answer>">>)
    THEN LET parts == SplitOnce(content, <<"<answer>">>) IN
         Parsed(Strip(RemoveTag(RemoveTag(parts[1], "<think>"), "</think>")),
                Strip(RemoveTag(parts[2], "</answer>")))
    ELSE Parsed(<<>>, content)

\* <think>T</think><answer>A</answer>
TaggedForm(T, A) == <<"<think>">> \o T \o <<"</think>", "<answer>">> \o A \o <<"</answer>">>

\* the raw outputs tried: every text of at most MaxLen tokens, and the tagged
\* forms around a thinking and an answer text
RawOutputs ==
    Texts(Alphabet, MaxLen) \cup
    {TaggedForm(T, A) : T \in Texts(Chars, MaxThink), A \in Texts(Chars, MaxAnswer)}

NotParsed == [done |-> FALSE, thinking |-> <<>>, action |-> <<>>]

ParseInit ==
    /\ variant = "glm"
    /\ max_steps = 0
    /\ script = [at |-> 0, kind |-> "do"]
    /\ Constructed
    /\ fn_in \in RawOutputs
    /\ fn_out = NotParsed

\* _, action_str = self._parse_raw_response(raw_content)
ParseRawResponse ==
    /\ ~fn_out.done
    /\ fn_out' = _parse_raw_response(fn_in)
    /\ UNCHANGED <<variant, max_steps, script, fn_in>>
    /\ UNCHANGED agentVars
    /\ UNCHANGED runVars
    /\ UNCHANGED histVars

ParseNext == ParseRawResponse

ParseSpec == ParseInit /\ [][ParseNext]_vars

\* ================= the model-call phase of a step as a function of the response
\* glm: the response arrives as content chunks, which _stream_openai turns
\* into raw and thinking chunks; fn_in is the chunks received so far, fn_out
\* the locals of _stream_openai and of the loop of _execute_step around it:
\* buffer, in_action_phase, raw_content, thinking_parts, and whether the
\* stream has ended.  gemini: fn_in is <<message.content>>.
StreamState(buffer, in_action_phase, raw_content, thinking_parts, ended) ==
    [buffer |-> buffer, in_action_phase |-> in_action_phase,
     raw_content |-> raw_content, thinking_parts |-> thinking_parts,
     ended |-> ended]

StreamOpened == StreamState(<<>>, FALSE, <<>>, <<>>, FALSE)

\* text.endswith(sub)
EndsWith(text, sub) ==
    /\ Len(sub) <= Len(text)
    /\ SubSeq(text, Len(text) - Len(sub) + 1, Len(text)) = sub

\* the buffer ends with a proper, non-empty prefix of one of the markers
IsPotentialMarker(buffer) ==
    \E marker \in {FinishMarker, DoMarker} :
       \E i \in 1..(Len(marker) - 1) : EndsWith(buffer, SubSeq(marker, 1, i))

\* mutant: the text before a marker found in the buffer is not emitted
ProcessChunk_DropsThinking(st, content) ==
    IF st.in_action_phase
    THEN [st EXCEPT !.raw_content = @ \o content]
    ELSE LET buffer == st.buffer \o content
             raw == st.raw_content \o content
         IN IF Contains(buffer, FinishMarker) \/ Contains(buffer, DoMarker)
            THEN StreamState(buffer, TRUE, raw, st.thinking_parts, FALSE)
            ELSE IF ~IsPotentialMarker(buffer) /\ Len(buffer) > 0
            THEN StreamState(<<>>, FALSE, raw, Append(st.thinking_parts, buffer), FALSE)
            ELSE StreamState(buffer, FALSE, raw, st.thinking_parts, FALSE)

\* one content chunk through _stream_openai and the loop of _execute_step:
\* the raw chunk is added to raw_content, every thinking chunk is yielded as
\* a thinking event and added to thinking_parts
ProcessChunk(st, content) ==
    IF st.in_action_phase
    THEN [st EXCEPT !.raw_content = @ \o content]
    ELSE LET buffer == st.buffer \o content
             raw == st.raw_content \o content
         IN IF Contains(buffer, FinishMarker)
            THEN StreamState(buffer, TRUE, raw,
                             Append(st.thinking_parts, SplitOnce(buffer, FinishMarker)[1]),
                             FALSE)
            ELSE IF Contains(buffer, DoMarker)
            THEN StreamState(buffer, TRUE, raw,
                             Append(st.thinking_parts, SplitOnce(buffer, DoMarker)[1]),
                             FALSE)
            ELSE IF ~IsPotentialMarker(buffer) /\ Len(buffer) > 0
            THEN StreamState(<<>>, FALSE, raw, Append(st.thinking_parts, buffer), FALSE)
            ELSE StreamState(buffer, FALSE, raw, st.thinking_parts, FALSE)

\* the non-empty content chunks that fit into a response of MaxLen tokens
ChunksAfter(raw) == Texts(Chars, MaxLen - Len(raw)) \ {<<>>}

StreamInit ==
    /\ variant \in {"glm", "gemini"}
    /\ max_steps = 0
    /\ script = [at |-> 0, kind |-> "do"]
    /\ Constructed
    /\ IF variant = "glm"
       THEN fn_in = <<>>
       ELSE \E content \in Texts(Chars, MaxLen) : fn_in = <<content>>
    /\ fn_out = StreamOpened

StreamFrame ==
    /\ UNCHANGED <<variant, max_steps, script>>
    /\ UNCHANGED agentVars
    /\ UNCHANGED runVars
    /\ UNCHANGED histVars

\* glm: async for chunk in stream, one chunk with content
ReceiveChunk ==
    /\ variant = "glm"
    /\ ~fn_out.ended
    /\ \E content \in ChunksAfter(fn_out.raw_content) :
          /\ fn_in' = Append(fn_in, content)
          /\ fn_out' = ProcessChunk(fn_out, content)
    /\ StreamFrame

\* mutant: the text still in the buffer is emitted when the stream ends
EndOfStream_FlushesBuffer ==
    /\ variant = "glm"
    /\ ~fn_out.ended
    /\ fn_out' = [fn_out EXCEPT !.ended = TRUE,
                                !.thinking_parts =
                                    IF fn_out.in_action_phase \/ fn_out.buffer = <<>>
                                    THEN @ ELSE Append(@, fn_out.buffer)]
    /\ UNCHANGED fn_in
    /\ StreamFrame

\* glm: the stream is exhausted
EndOfStream ==
    /\ variant = "glm"
    /\ ~fn_out.ended
    /\ fn_out' = [fn_out EXCEPT !.ended = TRUE]
    /\ UNCHANGED fn_in
    /\ StreamFrame

\* gemini: thinking = message.content or ""; if thinking: yield thinking event
MessageContent ==
    /\ variant = "gemini"
    /\ ~fn_out.ended
    /\ fn_out' = StreamState(<<>>, FALSE, fn_in[1],
                             IF fn_in[1] # <<>> THEN <<fn_in[1]>> ELSE <<>>, TRUE)
    /\ UNCHANGED fn_in
    /\ StreamFrame

StreamNext ==
    \/ ReceiveChunk
    \/ EndOfStream
    \/ MessageContent

StreamSpec == StreamInit /\ [][StreamNext]_vars

\* ============================================ the dual-model coordinator
\* DualModelAgent.run() with its step body _execute_step, and abort().  The
\* run is a thread: abort() comes from another thread at any time.  The
\* variables stand for the coordinator's fields of the same meaning:
\* step_count for self.step_count, cancel_event for self.stop_event, events
\* for what the run has put on self.event_queue, cur.finished for the local
\* finished of run(); pc is the blocking call the thread is in ("d_start":
\* run() has been entered and has not cleared the stop flag yet).  The decision
\* and vision models are collaborators that return or raise.
DualEvent(type, step) == Ev(type, step, "none", FALSE, FALSE, "")

\* DECISION_RESULT, with the finished flag of the decision
DecisionResult(step, finished) == Ev("decision_result", step, "none", finished, FALSE, "")

\* TASK_COMPLETE {success, message, steps}
TaskComplete(steps, success) ==
    Ev("task_complete", steps, "none", FALSE, success,
       IF success THEN "decision reasoning" ELSE "max steps limit")

\* mutant: step_complete is enqueued without the action_result before it
ExecutionEvents_NoActionResult(step, success, finished) ==
    <<Ev("step_complete", step, "none", finished, success, "")>>

\* ACTION_RESULT and STEP_COMPLETE, enqueued after execute_decision returned
ExecutionEvents(step, success, finished) ==
    <<Ev("action_result", step, "none", FALSE, success, ""),
      Ev("step_complete", step, "none", finished, success, "")>>

\* mutant: a finished decision is executed like any other
SkipsExecution_Never(finished) == FALSE

\* if decision.finished: return StepResult(..., finished=True, ...)
SkipsExecution(finished) == finished

DualInit ==
    /\ variant = "dual"
    /\ max_steps \in 0..MaxSteps
    /\ script = [at |-> 0, kind |-> "do"]
    /\ Constructed
    /\ fn_in = <<>>
    /\ fn_out = <<>>

\* what no action of the coordinator touches
DualFrame ==
    /\ UNCHANGED <<variant, max_steps, script, context, is_running>>
    /\ UNCHANGED <<start_count, calls, cancel_step, late_dispatch,
                   reset_midrun, stream_open>>
    /\ UNCHANGED pureVars

\* run() returns
DualReturn(evs) ==
    /\ pc' = "idle"
    /\ events' = evs
    /\ outcome' = "returned"
    /\ cur' = NoCur
    /\ step_count' = step_count

\* if self.stop_event.is_set()
StopRequested == cancel_event

\* the head of the while loop of run(), reached with the local finished
DualLoopHead(evs, finished) ==
    IF ~finished /\ step_count < max_steps
    THEN IF StopRequested
         THEN DualReturn(evs)
         ELSE /\ step_count' = step_count + 1
              /\ pc' = "d_vision"
              /\ events' = Append(evs, DualEvent("vision_start", step_count + 1))
              /\ cur' = NoCur
              /\ outcome' = outcome
    ELSE DualReturn(Append(evs, TaskComplete(step_count, finished)))

\* the step returned its result: run() sleeps before the next iteration
DualStepDone(evs, finished) ==
    /\ pc' = "d_sleep"
    /\ events' = evs
    /\ cur' = [NoCur EXCEPT !.finished = finished]
    /\ outcome' = outcome
    /\ step_count' = step_count

\* the step raised: _execute_step returns StepResult(error=str(e)).  run()
\* continues with the next iteration at once, unless str(e) is empty: an
\* empty error is falsy, and the step is then treated as an unfinished one
DualStepError(evs, empty) ==
    IF empty
    THEN DualStepDone(evs, FALSE)
    ELSE DualLoopHead(evs, FALSE)

\* decision_thinking events of the on_thinking callback, during a model call
DecisionThinking(th, step) ==
    IF th THEN <<DualEvent("decision_thinking", step)>> ELSE <<>>

\* run() is entered by its thread: self.step_count = 0
DualRun ==
    /\ variant = "dual"
    /\ pc = "idle"
    /\ runs < MaxRuns
    /\ runs' = runs + 1
    /\ step_count' = 0
    /\ pc' = "d_start"
    /\ events' = <<>>
    /\ outcome' = "none"
    /\ cur' = NoCur
    /\ dispatched' = 0
    /\ cancel_at' = "none"
    /\ UNCHANGED cancel_event
    /\ DualFrame

\* self.stop_event.clear(), then run() up to analyze_task
DualStart ==
    /\ pc = "d_start"
    /\ cancel_event' = FALSE
    /\ pc' = "d_analyze"
    /\ events' = <<DualEvent("decision_start", 0)>>
    /\ UNCHANGED <<cur, outcome, step_count>>
    /\ UNCHANGED <<runs, dispatched, cancel_at>>
    /\ DualFrame

\* analyze_task returns the plan or raises
DualAnalyze ==
    /\ pc = "d_analyze"
    /\ \E ok \in BOOLEAN, th \in BOOLEAN :
          LET evs == events \o DecisionThinking(th, 0) IN
          IF ok
          THEN DualLoopHead(Append(evs, DualEvent("task_plan", 0)), FALSE)
          ELSE DualReturn(Append(evs, DualEvent("error", 0)))
    /\ UNCHANGED <<cancel_event, runs, dispatched, cancel_at>>
    /\ DualFrame

\* capture_screenshot and describe_screen return or raise
DualVision ==
    /\ pc = "d_vision"
    /\ \E ok \in BOOLEAN, empty \in BOOLEAN :
          IF ok
          THEN /\ pc' = "d_decide"
               /\ events' = events \o <<DualEvent("vision_recognition", step_count),
                                        DualEvent("decision_start", step_count)>>
               /\ UNCHANGED <<cur, outcome, step_count>>
          ELSE DualStepError(events, empty)
    /\ UNCHANGED <<cancel_event, runs, dispatched, cancel_at>>
    /\ DualFrame

\* make_decision returns a decision (finished or not) or raises
DualDecide ==
    /\ pc = "d_decide"
    /\ \E ok \in BOOLEAN, th \in BOOLEAN, finished \in BOOLEAN, empty \in BOOLEAN :
          LET evs == events \o DecisionThinking(th, step_count) IN
          IF ~ok
          THEN DualStepError(evs, empty)
          ELSE IF SkipsExecution(finished)
          THEN DualStepDone(Append(evs, DecisionResult(step_count, finished)), TRUE)
          ELSE /\ pc' = "d_execute"
               /\ events' = evs \o <<DecisionResult(step_count, finished),
                                     DualEvent("action_start", step_count)>>
               /\ UNCHANGED <<cur, outcome, step_count>>
    /\ UNCHANGED <<cancel_event, runs, dispatched, cancel_at>>
    /\ DualFrame

\* execute_decision returns its result or raises
DualExecute ==
    /\ pc = "d_execute"
    /\ dispatched' = dispatched + 1
    /\ \E ok \in BOOLEAN, success \in BOOLEAN, finished \in BOOLEAN, empty \in BOOLEAN :
          IF ok
          THEN DualStepDone(events \o ExecutionEvents(step_count, success, finished),
                            finished)
          ELSE DualStepError(events, empty)
    /\ UNCHANGED <<cancel_event, runs, cancel_at>>
    /\ DualFrame

\* time.sleep(0.5) ends
DualSleep ==
    /\ pc = "d_sleep"
    /\ DualLoopHead(events, cur.finished)
    /\ UNCHANGED <<cancel_event, runs, dispatched, cancel_at>>
    /\ DualFrame

\* abort(), from another thread at any time (skipped where it changes nothing)
DualAbort ==
    /\ variant = "dual"
    /\ ~cancel_event \/ (pc # "idle" /\ cancel_at = "none")
    /\ cancel_event' = TRUE
    /\ cancel_at' = IF pc # "idle" /\ cancel_at = "none" THEN pc ELSE cancel_at
    /\ UNCHANGED <<step_count, runs, dispatched>>
    /\ UNCHANGED runVars
    /\ DualFrame

DualNext ==
    \/ DualRun
    \/ DualStart
    \/ DualAnalyze
    \/ DualVision
    \/ DualDecide
    \/ DualExecute
    \/ DualSleep
    \/ DualAbort

DualSpec == DualInit /\ [][DualNext]_vars

\* ================================================== POST /api/chat
\* chat() of api/agents.py, for MaxRuns concurrent requests on one device.
\* fn_in is the device lock of the PhoneAgentManager (holder = 0: free),
\* fn_out maps each request to the position and the locals of its handler:
\* acquired is the local of that name, ran and released count the calls of
\* agent.run and release_device the handler made, response is what the
\* handler answers ("ok": success=True, "failed": success=False, "409",
\* "500", "cancelled": the CancelledError of the agent propagates).
Requests == 1..MaxRuns

LockFree == [holder |-> 0]

NewRequest ==
    [pc |-> "acquire", acquired |-> FALSE, ran |-> 0, released |-> 0,
     response |-> "none"]

\* mutant: the finally clause releases whether or not the lock was acquired
ReleasesLock_Always(acquired) == TRUE

\* finally: if acquired: release_device(device_id)
ReleasesLock(acquired) == acquired

\* an except clause or the return sets the response; the finally clause follows
ChatFinally(r, response) ==
    fn_out' = [fn_out EXCEPT ![r].response = response,
                             ![r].pc = IF ReleasesLock(fn_out[r].acquired)
                                       THEN "release" ELSE "done"]

ChatInit ==
    /\ variant = "glm"
    /\ max_steps = MaxSteps
    /\ script = [at |-> 0, kind |-> "do"]
    /\ Constructed
    /\ fn_in = LockFree
    /\ fn_out = [r \in Requests |-> NewRequest]

ChatFrame ==
    /\ UNCHANGED <<variant, max_steps, script>>
    /\ UNCHANGED <<agentVars, runVars, histVars>>

\* acquire_device(device_id, timeout=None, auto_initialize=True) returns
\* True holding the lock, or raises: DeviceBusyError while another request
\* holds it, AgentInitializationError, or anything else
ChatAcquire(r) ==
    /\ fn_out[r].pc = "acquire"
    /\ \/ /\ fn_in.holder = 0
          /\ fn_in' = [holder |-> r]
          /\ fn_out' = [fn_out EXCEPT ![r].acquired = TRUE, ![r].pc = "get_agent"]
       \/ /\ fn_in.holder # 0
          /\ ChatFinally(r, "409")
          /\ UNCHANGED fn_in
       \/ /\ \E response \in {"500", "failed"} : ChatFinally(r, response)
          /\ UNCHANGED fn_in
    /\ ChatFrame

\* get_agent_with_context returns the agent, whose run() is then called, or
\* raises
ChatGetAgent(r) ==
    /\ fn_out[r].pc = "get_agent"
    /\ \/ fn_out' = [fn_out EXCEPT ![r].pc = "run", ![r].ran = @ + 1]
       \/ \E response \in {"500", "failed"} : ChatFinally(r, response)
    /\ UNCHANGED fn_in
    /\ ChatFrame

\* await agent.run(message) returns or raises
ChatRun(r) ==
    /\ fn_out[r].pc = "run"
    /\ \E response \in {"ok", "failed", "cancelled"} : ChatFinally(r, response)
    /\ UNCHANGED fn_in
    /\ ChatFrame

\* release_device(device_id), in the finally clause
ChatRelease(r) ==
    /\ fn_out[r].pc = "release"
    /\ fn_in' = LockFree
    /\ fn_out' = [fn_out EXCEPT ![r].released = @ + 1, ![r].pc = "done"]
    /\ ChatFrame

ChatNext ==
    \E r \in Requests :
        \/ ChatAcquire(r)
        \/ ChatGetAgent(r)
        \/ ChatRun(r)
        \/ ChatRelease(r)

ChatSpec == ChatInit /\ [][ChatNext]_vars

\* ------------------------------------------------------- SchedulerManager
\* fn_in is the manager (self._tasks keyed by task id, and the number of
\* ids uuid4 has handed out), fn_out is the job store of the
\* BackgroundScheduler (the trigger of each job, keyed by job id).
\* A cron expression is a sequence of tokens, " " being white space.
TaskIds == 1..MaxTasks

Star == <<"*", " ", "*", " ", "*", " ", "*", " ", "*">>

CronExpressions ==
    { Star,
      <<"0", " ", "9", " ", "*", " ", "*", " ", "*">>,
      <<"0", " ", " ", "9", " ", "*", " ", "*", " ", "*">>,
      <<"*", " ", "*", " ", "*", " ", "*">>,
      <<"61", " ", "*", " ", "*", " ", "*", " ", "*">>,
      <<>> }

\* str.split(): the fields between runs of white space
split(s) == SelectSeq(s, LAMBDA tok : tok # " ")

\* the values CronTrigger accepts for minute, hour, day, month, day_of_week
FieldRange == <<0..59, 0..23, 1..31, 1..12, 0..6>>

NumberOf(tok) == CASE tok = "0" -> 0 [] tok = "9" -> 9 [] tok = "61" -> 61

\* CronTrigger(minute=parts[0], hour=parts[1], day=parts[2],
\* month=parts[3], day_of_week=parts[4]) raises ValueError for a field
\* outside its range
CronTriggerRaises(parts) ==
    \E i \in 1..5 : parts[i] # "*" /\ NumberOf(parts[i]) \notin FieldRange[i]

CronTrigger(parts) ==
    [minute |-> parts[1], hour |-> parts[2], day |-> parts[3],
     month |-> parts[4], day_of_week |-> parts[5]]

ScheduledTask(cron_expression, enabled) ==
    [cron_expression |-> cron_expression, enabled |-> enabled]

Without(f, k) == [x \in DOMAIN f \ {k} |-> f[x]]

With(f, k, v) == [x \in DOMAIN f \cup {k} |-> IF x = k THEN v ELSE f[x]]

\* _add_job: a job store after add_job(..., id=task.id,
\* replace_existing=True), or unchanged when the expression has not five
\* fields or CronTrigger raised
add_job(jobs, id, task) ==
    LET parts == split(task.cron_expression) IN
    IF Len(parts) # 5 THEN jobs
    ELSE IF CronTriggerRaises(parts) THEN jobs
    ELSE With(jobs, id, CronTrigger(parts))

\* _remove_job
remove_job(jobs, id) == IF id \in DOMAIN jobs THEN Without(jobs, id) ELSE jobs

\* mutant: a changed expression of an enabled task leaves the job alone
JobsAfterUpdate_IgnoresCron(jobs, id, old_enabled, old_cron, task) ==
    IF old_enabled /\ ~task.enabled THEN remove_job(jobs, id)
    ELSE IF ~old_enabled /\ task.enabled THEN add_job(jobs, id, task)
    ELSE jobs
\* the job changes at the end of update_task
JobsAfterUpdate(jobs, id, old_enabled, old_cron, task) ==
    IF old_enabled /\ ~task.enabled THEN remove_job(jobs, id)
    ELSE IF ~old_enabled /\ task.enabled THEN add_job(jobs, id, task)
    ELSE IF task.enabled /\ old_cron # task.cron_expression
         THEN add_job(remove_job(jobs, id), id, task)
    ELSE jobs

SchedInit ==
    /\ variant = "glm"
    /\ max_steps = MaxSteps
    /\ script = [at |-> 0, kind |-> "do"]
    /\ Constructed
    /\ fn_in = [tasks |-> <<>>, created |-> 0]
    /\ fn_out = <<>>

SchedFrame ==
    /\ UNCHANGED <<variant, max_steps, script>>
    /\ UNCHANGED <<agentVars, runVars, histVars>>

create_task(cron_expression, enabled) ==
    /\ fn_in.created < MaxTasks
    /\ LET id == fn_in.created + 1
           task == ScheduledTask(cron_expression, enabled)
       IN /\ fn_in' = [tasks |-> With(fn_in.tasks, id, task), created |-> id]
          /\ fn_out' = IF enabled THEN add_job(fn_out, id, task) ELSE fn_out
    /\ SchedFrame

\* kwargs holds the keys given with a value other than None
update_task(task_id, keys, cron_expression, enabled) ==
    /\ task_id \in DOMAIN fn_in.tasks
    /\ LET old == fn_in.tasks[task_id]
           task == ScheduledTask(
                       IF "cron_expression" \in keys THEN cron_expression
                       ELSE old.cron_expression,
                       IF "enabled" \in keys THEN enabled ELSE old.enabled)
       IN /\ fn_in' = [fn_in EXCEPT !.tasks[task_id] = task]
          /\ fn_out' = JobsAfterUpdate(fn_out, task_id, old.enabled,
                                       old.cron_expression, task)
    /\ SchedFrame

delete_task(task_id) ==
    /\ task_id \in DOMAIN fn_in.tasks
    /\ fn_in' = [fn_in EXCEPT !.tasks = Without(@, task_id)]
    /\ fn_out' = remove_job(fn_out, task_id)
    /\ SchedFrame

set_enabled(task_id, enabled) ==
    /\ task_id \in DOMAIN fn_in.tasks
    /\ LET old == fn_in.tasks[task_id]
           task == [old EXCEPT !.enabled = enabled]
       IN IF old.enabled = enabled
          THEN UNCHANGED <<fn_in, fn_out>>
          ELSE /\ fn_in' = [fn_in EXCEPT !.tasks[task_id] = task]
               /\ fn_out' = IF enabled THEN add_job(fn_out, task_id, task)
                            ELSE remove_job(fn_out, task_id)
    /\ SchedFrame

SchedNext ==
    \/ \E c \in CronExpressions, e \in BOOLEAN : create_task(c, e)
    \/ \E t \in TaskIds, keys \in SUBSET {"cron_expression", "enabled"},
          c \in CronExpressions, e \in BOOLEAN : update_task(t, keys, c, e)
    \/ \E t \in TaskIds, e \in BOOLEAN : set_enabled(t, e)
    \/ \E t \in TaskIds : delete_task(t)

SchedSpec == SchedInit /\ [][SchedNext]_vars

\* =================================================================== claims
IsStep(e) == e.type = "step"

IsTerminal(e) == e.type \in {"done", "cancelled"}

StepEvents == SelectSeq(events, IsStep)

CountOf(type) == Cardinality({i \in 1..Len(events) : events[i].type = type})

\* a run of stream() has ended (returned or raised) and no new one has begun
RunEnded == pc = "idle" /\ runs > 0

\* the run started on a fresh or reset agent
FreshRun == start_count = 0

\* reset() is documented as valid only while no run is active
ValidUse == ~reset_midrun

\* the model does not end the run within its first max_steps responses
NeverFinishingModel == \A n \in 1..max_steps : ResponseAt(n) = "do"

\* no step and no observation of the run failed or finished
NoFinishingStep ==
    /\ CountOf("error") = 0
    /\ \A i \in 1..Len(events) : IsStep(events[i]) => ~events[i].finished

\* C1: a run on a fresh or reset agent, with a model that never finishes, no
\* failure and no cancellation, performs exactly max_steps steps (step events
\* numbered 1..max_steps) and then emits one done event with message
\* "Max steps reached", success = false and steps = max_steps.
C1_MaxStepsBoundary ==
    (RunEnded /\ FreshRun /\ ValidUse /\ cancel_at = "none"
       /\ NeverFinishingModel /\ NoFinishingStep)
    => /\ Len(StepEvents) = max_steps
       /\ \A i \in 1..Len(StepEvents) : StepEvents[i].step = i
       /\ CountOf("done") = 1
       /\ CountOf("cancelled") = 0
       /\ events[Len(events)] = DoneEvent(max_steps, FALSE, "Max steps reached")
       /\ outcome = "returned"

C1_Witness ==
    /\ RunEnded /\ FreshRun /\ ValidUse /\ cancel_at = "none"
    /\ NeverFinishingModel /\ NoFinishingStep
    /\ max_steps = MaxSteps
    /\ Len(StepEvents) = MaxSteps
    /\ events[Len(events)].message = "Max steps reached"

\* C2: if cancel() is invoked between two steps (after the non-finishing step
\* event of step k was delivered, before step k+1 begins), the run emits a
\* cancelled event and no done event, and step_count stays at k.
C2_CancelBetweenSteps ==
    (RunEnded /\ ValidUse /\ cancel_at = "between_steps" /\ cancel_step < max_steps)
    => /\ CountOf("cancelled") = 1
       /\ CountOf("done") = 0
       /\ step_count = cancel_step

\* C3: every run that ends has emitted exactly one terminal event (done or
\* cancelled, never both) and that event is the last event of the run.
C3_OneTerminalEvent ==
    RunEnded
    => /\ CountOf("done") + CountOf("cancelled") = 1
       /\ Len(events) > 0
       /\ IsTerminal(events[Len(events)])

\* what the finishing step event at position i of the run requires: the run
\* is suspended at its yield, or has ended with the matching done event
FinishFollowedByDone(i) ==
    \/ i = Len(events) /\ pc = "step_yield"
    \/ /\ i + 1 = Len(events)
       /\ pc = "idle"
       /\ events[i + 1] = DoneEvent(events[i].step, events[i].success, events[i].message)

\* C4: whenever a step event with finished = true is emitted, the next and
\* last event of the run is a done event with that step's message and success
\* and with steps equal to that step's index; afterwards the model is not
\* called again and no further device action is dispatched in that run (each
\* step that emitted a step event made at most one model call and one
\* dispatch, and there is no other).
C4_FinishThenDone ==
    ValidUse
    => \A i \in 1..Len(events) :
          (IsStep(events[i]) /\ events[i].finished)
          => /\ FinishFollowedByDone(i)
             /\ calls <= Len(StepEvents)
             /\ dispatched <= Len(StepEvents)

C4_Witness ==
    /\ RunEnded /\ ValidUse
    /\ Len(events) >= 3
    /\ IsStep(events[Len(events) - 1])
    /\ events[Len(events) - 1].finished
    /\ events[Len(events) - 1].success
    /\ events[Len(events) - 1].step = 2
    /\ events[Len(events)] = DoneEvent(2, TRUE, events[Len(events) - 1].message)

\* every tool call of the model carries an object of finite numbers
WellFormedModel == script.kind \notin {"nondict", "inf"}

\* the model's responses to a run contain a finish action
FinishingModel == script.at >= 1 /\ script.kind = "finish"

\* no observation, model call or execution of the run failed, and the
\* executor did not end the run on a device action
NoFailure ==
    /\ CountOf("error") = 0
    /\ \A i \in 1..Len(events) :
          IsStep(events[i])
          => /\ events[i].message # "executor error"
             /\ (events[i].action = "do" => ~events[i].finished)

UndisturbedRun == RunEnded /\ FreshRun /\ ValidUse /\ cancel_at = "none" /\ NoFailure

\* the run ended with the done event of a step that executed the finish
\* action, within max_steps steps
DoneReflectsFinish ==
    \E i \in 1..Len(events) :
       /\ IsStep(events[i])
       /\ events[i].action = "finish"
       /\ events[i].step <= max_steps
       /\ i + 1 = Len(events)
       /\ events[i + 1] = DoneEvent(events[i].step, events[i].success, events[i].message)

\* C5 as stated: for any sequence of model responses that eventually returns
\* a finish action (no failure, no cancellation) the run emits a done event
\* whose success reflects that finish action, after at most max_steps steps.
C5_Original ==
    (UndisturbedRun /\ FinishingModel /\ max_steps >= 1) => DoneReflectsFinish

\* C5 as amended: when the finish action is among the first max_steps
\* responses, at position j, the run ends after exactly j steps with the done
\* event of that finish step; when it would only come after more than
\* max_steps responses it is never requested and the run ends with done,
\* "Max steps reached", success = false, steps = max_steps.
C5_FinishWithinBound ==
    (UndisturbedRun /\ FinishingModel)
    => IF script.at <= max_steps
       THEN /\ DoneReflectsFinish
            /\ Len(StepEvents) = script.at
            /\ events[Len(events)].step = script.at
       ELSE /\ events[Len(events)] = DoneEvent(max_steps, FALSE, "Max steps reached")
            /\ Len(StepEvents) = max_steps

C5_Witness ==
    /\ UndisturbedRun /\ FinishingModel
    /\ script.at = 2
    /\ max_steps = 2
    /\ events[Len(events)] = DoneEvent(2, TRUE, "model message")
    /\ events[Len(events) - 1].action = "finish"

\* C6: in every run the step fields of the step events are exactly 1, 2, ...,
\* k in that order, with k <= max_steps, whatever runs preceded it on the
\* agent instance.
C6_StepNumbering ==
    (ValidUse /\ WellFormedModel)
    => /\ \A i \in 1..Len(StepEvents) : StepEvents[i].step = i
       /\ Len(StepEvents) <= max_steps

ImageTurns == {i \in 1..Len(context) : context[i].img}

IsLastUserTurn(i) ==
    /\ context[i].role = "user"
    /\ \A j \in (i + 1)..Len(context) : context[j].role # "user"

\* C7: after a step of a run completes (its step event is emitted), at most
\* one turn of the context holds an image, that turn is the most recent user
\* turn, and every earlier turn holds none.
C7_ContextImageBound ==
    (pc = "step_yield" /\ ValidUse /\ FreshRun /\ NoFailure)
    => /\ Cardinality(ImageTurns) <= 1
       /\ \A i \in ImageTurns : IsLastUserTurn(i)

\* C8: whatever the device, the model and the parser/mapper do, a run ends
\* with a done or a cancelled event; no exception other than the re-raised
\* cancellation escapes stream().
C8_NoUnhandledCrash ==
    RunEnded
    => /\ outcome \in {"returned", "cancelled"}
       /\ Len(events) > 0
       /\ events[Len(events)].type = (IF outcome = "cancelled" THEN "cancelled" ELSE "done")

\* C9: once cancel() has been invoked during a run, no device action is
\* dispatched any more (an action already in flight runs to completion).
C9_NoDispatchAfterCancel == ~late_dispatch

\* C10: if cancel() is invoked while the model call of a step is in progress,
\* the run ends with a cancelled event and no done event, and that step emits
\* no step event.
C10_CancelDuringModelCall ==
    (RunEnded /\ ValidUse /\ WellFormedModel /\ CountOf("error") = 0
       /\ cancel_at \in {"llm_open", "llm_stream", "llm"})
    => /\ CountOf("cancelled") = 1
       /\ CountOf("done") = 0
       /\ \A i \in 1..Len(StepEvents) : StepEvents[i].step # cancel_step

\* the error event at position i is followed by the finishing, failed step
\* event of that failure, and the run is at that yield or ended right after
\* it with the done event of that step
FailureReported(i, message) ==
    /\ i < Len(events)
    /\ IsStep(events[i + 1])
    /\ events[i + 1].finished
    /\ ~events[i + 1].success
    /\ events[i + 1].action = "none"
    /\ events[i + 1].message = message
    /\ \/ i + 1 = Len(events) /\ pc = "step_yield"
       \/ /\ i + 2 = Len(events)
          /\ pc = "idle"
          /\ events[i + 2] = DoneEvent(events[i + 1].step, FALSE, message)

\* the run failed at the first observation of stream(): the error event is
\* followed by the done event at once, no step was started
FailedBeforeFirstStep(i) ==
    /\ i = 1
    /\ Len(events) = 2
    /\ events[2] = DoneEvent(0, FALSE, "Device error")
    /\ pc = "idle"
    /\ calls = 0
    /\ dispatched = 0

DeviceErrorAt(i) == events[i] = ErrorEvent("Device error")

ModelErrorAt(i) == events[i] = ErrorEvent("Model error")

\* C12: when the model call of a step fails, the step emits an error event
\* and a step event with success = false and finished = true; the model is
\* not called again (no retry), no device action is dispatched for that step,
\* and the run ends with a done event whose success is false.
C12_ModelFailure ==
    ValidUse
    => \A i \in 1..Len(events) :
          ModelErrorAt(i)
          => /\ FailureReported(i, "Model error")
             /\ calls <= Len(StepEvents)
             /\ dispatched <= Len(StepEvents) - 1

\* the model call of step 2 failed, after a step that dispatched its action
C12_Witness ==
    /\ RunEnded /\ ValidUse
    /\ Len(events) >= 4
    /\ ModelErrorAt(Len(events) - 2)
    /\ events[Len(events) - 1] = FailedStep(2, "Model error")
    /\ events[Len(events)] = DoneEvent(2, FALSE, "Model error")
    /\ calls = 2
    /\ dispatched = 1

\* the step event at position i reports an execution that raised
ExecErrorAt(i) == IsStep(events[i]) /\ events[i].message = "executor error"

\* C13: when executing the action raises, the exception is not propagated:
\* the step emits exactly one step event, with success = false and
\* finished = true, built from a synthetic failed result, and the run goes on
\* to its done event.
C13_ExecutorFailure ==
    ValidUse
    => \A i \in 1..Len(events) :
          ExecErrorAt(i)
          => /\ ~events[i].success
             /\ events[i].finished
             /\ events[i].action \in {"do", "finish"}
             /\ \A j \in 1..Len(events) :
                   (IsStep(events[j]) /\ events[j].step = events[i].step) => j = i
             /\ outcome # "crashed"
             /\ FinishFollowedByDone(i)

\* the executor raised on the device action of step 2 and the run has ended
C13_Witness ==
    /\ RunEnded /\ ValidUse
    /\ Len(events) >= 3
    /\ events[Len(events) - 1] = StepEvent(2, "do", TRUE, FALSE, "executor error")
    /\ events[Len(events)] = DoneEvent(2, FALSE, "executor error")
    /\ dispatched = 2

\* the messages of the done event of a run that a failure ended
FailureMessages == {"Device error", "Model error", "executor error"}

\* C14: every run that ends abnormally (a device failure during observation
\* or during the execution of an action, or a model failure) has emitted
\* exactly one error event besides its terminal event; a run that ends by
\* finishing or by reaching max_steps has emitted no error event.
C14_OneErrorEvent ==
    (RunEnded /\ ValidUse /\ outcome = "returned")
    => LET last == events[Len(events)] IN
       /\ last.type = "done"
       /\ CountOf("error") = (IF last.message \in FailureMessages THEN 1 ELSE 0)

\* the run is suspended at the yield of the step event of an executed action
\* (cur.result is the result the executor gave, or the synthetic one)
AfterExecution == pc = "step_yield" /\ cur.result # NoResult

\* C15: for every step event produced after an action was executed,
\* finished = (the action is Finish) or (the result's should_finish); in
\* particular a device action whose result has should_finish ends the run:
\* its step event is finished and is followed by the done event.
C15_FinishedFlag ==
    /\ AfterExecution
       => LET last == events[Len(events)] IN
          /\ IsStep(last)
          /\ last.finished = (last.action = "finish" \/ cur.result.should_finish)
    /\ ValidUse
       => \A i \in 1..Len(events) :
             (IsStep(events[i]) /\ events[i].action = "do" /\ events[i].finished)
             => FinishFollowedByDone(i)

\* a tap whose result has should_finish (and no failure) is about to end the run
C15_Witness ==
    /\ AfterExecution
    /\ cur.result = ActionResult(TRUE, TRUE, "")
    /\ events[Len(events)] = StepEvent(1, "do", TRUE, TRUE, "")
    /\ max_steps = 2

\* the mapper was applied to the tool call fn_in
Mapped == fn_out.exc # "pending"

\* C16: tool_call_to_action never raises, for every tool name and every
\* arguments value (keys missing, null, of the wrong type, booleans,
\* non-finite numbers, arguments that are not an object).
C16_MapperNeverRaises == Mapped => fn_out.exc = "none"

\* the type the schema of a parameter asks for: integer parameters take the
\* numbers int and float, string parameters take str
WellTyped(name, key, val) ==
    IF key \in IntKeys(name) THEN val.t \in {"int", "float"} ELSE val.t = "str"

\* a required argument of the tool call is missing or has the wrong type
BadRequiredArgument(name, arguments) ==
    \E key \in KeysOf(name) :
       \/ key \notin DOMAIN arguments.m
       \/ ~WellTyped(name, key, arguments.m[key])

IsFinishWith(r, message) ==
    /\ r.exc = "none"
    /\ r.val.metadata = "finish"
    /\ r.val.message = message

\* C17: for a tool name outside the known set the mapper returns a Finish
\* action whose message contains "Unknown tool"; for every known tool, when a
\* required argument is missing or has the wrong type, it returns a Finish
\* action whose message contains "Invalid tool call" (stated for the calls
\* that return, with arguments that are an object, and for the tools that
\* act on the device: the message of finish has a default of its own).
C17_FallbackFinish ==
    (Mapped /\ fn_out.exc = "none" /\ fn_in.arguments.dict)
    => /\ fn_in.tool_name \notin KnownTools => IsFinishWith(fn_out, "Unknown tool")
       /\ (fn_in.tool_name \in KnownTools \ {"finish"}
             /\ BadRequiredArgument(fn_in.tool_name, fn_in.arguments))
          => IsFinishWith(fn_out, "Invalid tool call")

\* every parameter of the tool is present and of the type its schema asks for
WellTypedCall(name, arguments) ==
    /\ arguments.dict
    /\ \A key \in KeysOf(name) :
          key \in DOMAIN arguments.m /\ WellTyped(name, key, arguments.m[key])

\* the integer a number is truncated to, toward zero (floats are in tenths):
\* the one with the number's sign that is at most one tenth-unit short of it
Truncated(val) ==
    IF val.t = "int" THEN val.v
    ELSE CHOOSE n \in -1000..1000 :
            IF val.v >= 0
            THEN n * 10 <= val.v /\ val.v < (n + 1) * 10
            ELSE (n - 1) * 10 < val.v /\ val.v <= n * 10

\* the kind of Do action each device tool stands for
KindOfTool(name) ==
    CASE name = "tap" -> "Tap"
      [] name = "double_tap" -> "Double Tap"
      [] name = "long_press" -> "Long Press"
      [] name = "swipe" -> "Swipe"
      [] name = "type_text" -> "Type"
      [] name = "launch_app" -> "Launch"
      [] name = "back" -> "Back"
      [] name = "home" -> "Home"
      [] name = "wait" -> "Wait"

\* the arguments the Do action of a well-typed call has to carry
ParamsOfCall(name, m) ==
    CASE name \in {"tap", "double_tap", "long_press"} ->
            <<Truncated(m["x"]), Truncated(m["y"])>>
      [] name = "swipe" ->
            <<Truncated(m["start_x"]), Truncated(m["start_y"]),
              Truncated(m["end_x"]), Truncated(m["end_y"])>>
      [] name = "type_text" -> <<m["text"].v>>
      [] name = "launch_app" -> <<m["app_name"].v>>
      [] name = "wait" -> <<m["duration"]>>
      [] OTHER -> <<>>

\* C18: a known device tool called with well-typed required arguments maps to
\* the Do action of its kind carrying exactly those arguments, floats
\* truncated toward zero (500.7 -> 500); finish maps to a Finish action whose
\* message is the "message" argument, or "Task completed" when it is absent.
C18_WellTypedMapping ==
    (Mapped /\ fn_in.arguments.dict)
    => LET name == fn_in.tool_name
           m == fn_in.arguments.m
       IN /\ (name \in KnownTools \ {"finish"} /\ WellTypedCall(name, fn_in.arguments))
             => /\ fn_out.exc = "none"
                /\ fn_out.val.metadata = "do"
                /\ fn_out.val.action = KindOfTool(name)
                /\ fn_out.val.params = ParamsOfCall(name, m)
          /\ (name = "finish" /\ "message" \in DOMAIN m /\ m["message"].t = "str")
             => IsFinishWith(fn_out, StrText(m["message"].v))
          /\ (name = "finish" /\ "message" \notin DOMAIN m)
             => IsFinishWith(fn_out, "Task completed")

\* tap at (500.7, 300.2) became Tap [500, 300]
C18_Witness ==
    /\ Mapped
    /\ fn_in.tool_name = "tap"
    /\ fn_in.arguments = Args([k \in {"x", "y"} |->
                                 IF k = "x" THEN Val("float", 5007) ELSE Val("float", 3002)])
    /\ fn_out.exc = "none"
    /\ fn_out.val = DoAction("Tap", <<500, 300>>)

\* a marker of the DSL occurs in s at position i
MarkerAt(s, i) == OccursAt(s, FinishMarker, i) \/ OccursAt(s, DoMarker, i)

HasMarker(s) == \E i \in 1..Len(s) : MarkerAt(s, i)

\* the position of the marker occurrence that comes first in s
FirstMarker(s) ==
    CHOOSE i \in 1..Len(s) : MarkerAt(s, i) /\ \A j \in 1..(i - 1) : ~MarkerAt(s, j)

\* C19: for every output that contains at least one of the markers
\* finish(message= and do(action=, the DSL split returns as thinking the text
\* that precedes the marker occurrence coming first in the text, whichever of
\* the two markers it is (surrounding blanks dropped), and as action
\* everything from that occurrence onward (stated for outputs without tags).
C19_SplitAtFirstMarker ==
    (fn_out.done /\ HasMarker(fn_in) /\ \A i \in 1..Len(fn_in) : fn_in[i] \notin TagTokens)
    => LET p == FirstMarker(fn_in) IN
       /\ fn_out.thinking = Strip(SubSeq(fn_in, 1, p - 1))
       /\ fn_out.action = SubSeq(fn_in, p, Len(fn_in))

\* s is <think>T</think><answer>A</answer> with no tag inside T or A: the
\* position of its </think>
IsTagged(s) ==
    /\ Len(s) >= 4
    /\ s[1] = "<think>"
    /\ s[Len(s)] = "</answer>"
    /\ \E i \in 2..(Len(s) - 2) :
          /\ s[i] = "</think>"
          /\ s[i + 1] = "<answer>"
          /\ \A j \in (2..(Len(s) - 1)) \ {i, i + 1} : s[j] \notin TagTokens

CloseThink(s) == CHOOSE i \in 2..(Len(s) - 2) : s[i] = "</think>"

ThinkOf(s) == SubSeq(s, 2, CloseThink(s) - 1)

AnswerOf(s) == SubSeq(s, CloseThink(s) + 2, Len(s) - 1)

\* C20: for an output in the tagged form <think>T</think><answer>A</answer>
\* the split returns T, stripped and without any tag text, as thinking and A,
\* stripped and without any tag text, as action, also when A is itself a
\* finish(message=...) or do(action=...) call (T holds no marker).
C20_TaggedForm ==
    (fn_out.done /\ IsTagged(fn_in) /\ ~HasMarker(ThinkOf(fn_in)))
    => /\ fn_out.thinking = Strip(ThinkOf(fn_in))
       /\ fn_out.action = Strip(AnswerOf(fn_in))

\* C21: for an output that contains neither action marker nor an answer tag,
\* the DSL split returns the entire text as thinking and the empty string as
\* action.
C21_NoMarkerIsThinking ==
    (fn_out.done /\ ~HasMarker(fn_in) /\ ~Contains(fn_in, <<"<answer>">>))
    => /\ fn_out.thinking = fn_in
       /\ fn_out.action = <<>>

\* the step whose event was just yielded got an action text the parser rejects
ParseFailedStep ==
    /\ AfterExecution
    /\ variant = "glm"
    /\ calls >= 1
    /\ ResponseAt(calls) = "malformed"

\* C22: in the DSL variant, when parsing the action text fails, the action of
\* the step is Finish with the raw action text as message, the step event has
\* finished = true, and no error event is emitted for the parse failure.
C22_ParseFailureFallback ==
    ParseFailedStep
    => LET last == events[Len(events)] IN
       /\ IsStep(last)
       /\ last.action = "finish"
       /\ last.finished
       /\ cur.result.message = "" => last.message = "raw action text"
       /\ CountOf("error") = 0

\* the second response was malformed: step 2 ends the run with the raw text
C22_Witness ==
    /\ ParseFailedStep
    /\ calls = 2
    /\ events[Len(events)] = StepEvent(2, "finish", TRUE, TRUE, "raw action text")

\* a run during which cancel() was not invoked is not cancelled: while it is
\* active the flags are as stream() set them, and it emits no cancelled event
NotCutShort ==
    (ValidUse /\ cancel_at = "none")
    => /\ CountOf("cancelled") = 0
       /\ outcome # "cancelled"
       /\ pc # "idle" => (is_running /\ ~cancel_event)

\* C23: cancel() invoked while no run is active (before a run or after it
\* ended) changes neither context nor step_count, and a run started
\* afterwards executes as if cancel() had never been called: stream() starts
\* with the cancel flag clear and is_running set, whatever they were, and the
\* run emits no cancelled event and is not cut short.
C23_IdleCancelNoOp ==
    [][/\ (Cancel /\ pc = "idle") => UNCHANGED <<context, step_count>>
       /\ Stream => (is_running' /\ ~cancel_event')
       /\ NotCutShort']_vars

\* cancel() was invoked after a run of two steps had ended; nothing of the
\* run's state changed
C23_Witness ==
    /\ pc = "idle"
    /\ cancel_event
    /\ cancel_at = "none"
    /\ runs = 1
    /\ ValidUse
    /\ step_count = 2
    /\ Len(StepEvents) = 2
    /\ Len(context) > 1

\* the agent fields are those of a freshly constructed agent
AgentFresh ==
    /\ context = <<create_system_message>>
    /\ step_count = 0
    /\ ~is_running
    /\ ~cancel_event

\* the step events of a run that began on a fresh or reset agent are numbered
\* from 1
NumberedFromOne ==
    (ValidUse /\ FreshRun) => \A i \in 1..Len(StepEvents) : StepEvents[i].step = i

\* C24: after reset() invoked while no run is active the agent state equals
\* that of a freshly constructed agent (context is the single system turn,
\* step_count = 0, is_running = false, cancel flag clear); reset() is
\* idempotent (a reset of that state yields it again); and the next run
\* numbers its steps from 1.
C24_ResetIsFresh ==
    [][/\ (Reset /\ pc = "idle") => AgentFresh'
       /\ (AgentFresh /\ Stream) => start_count' = 0
       /\ NumberedFromOne']_vars

\* reset() was invoked after a run of two steps had ended
C24_Witness ==
    /\ pc = "idle"
    /\ runs = 1
    /\ ValidUse
    /\ Len(StepEvents) = 2
    /\ AgentFresh

\* C25: reset() is valid only when no run is active: a reset() invoked while
\* a run is active does not change that run's context or step_count, which
\* only the run's own step execution mutates.
C25_ResetDuringRun ==
    [][(Reset /\ pc # "idle" /\ is_running) => UNCHANGED <<context, step_count>>]_vars

\* where the coroutine is while a step is in progress, its step event not
\* yet yielded
StepPcs == {"step_obs", "llm_open", "llm_stream", "llm", "exec_shot", "executing"}

\* the events a transition adds to those of the run
NewEvents == {i \in 1..Len(events') : i > Len(events)}

\* the step in progress is left, and not by cancellation
StepLeft == pc \in StepPcs /\ pc' \notin StepPcs /\ outcome' # "cancelled"

\* the step ends at the yield of its one step event
EndsWithItsStepEvent ==
    /\ pc' = "step_yield"
    /\ IsStep(events'[Len(events')])
    /\ events'[Len(events')].step = step_count'
    /\ Cardinality({i \in 1..Len(events') :
                       IsStep(events'[i]) /\ events'[i].step = step_count'}) = 1

\* C26: within every step that is not interrupted by cancellation exactly one
\* step event is emitted and it is the last event of the step: the thinking
\* events of the step are emitted while the step is in progress, before its
\* step event, and after the step event the step emits nothing more.
C26_OneStepEventLast ==
    [][ValidUse'
       => /\ StepLeft => EndsWithItsStepEvent
          /\ \A i \in NewEvents :
                /\ events'[i].type = "thinking" => pc \in StepPcs
                /\ IsStep(events'[i]) => pc \in StepPcs
                /\ pc = "step_yield" => IsTerminal(events'[i])]_vars

\* the thinking text of a model output: the text preceding the action marker
\* in the DSL variant, the message content in the tool-call variant
ThinkingText(v, text) ==
    IF v = "gemini" THEN text
    ELSE IF HasMarker(text) THEN SubSeq(text, 1, FirstMarker(text) - 1)
    ELSE <<>>

\* C27: for every step that reaches normalization (its model call has ended)
\* and whose model output has non-empty thinking text, at least one thinking
\* event has been emitted by then, that is before the step's step event, and
\* the thinking emitted is not empty.
C27_ThinkingEmitted ==
    (fn_out.ended /\ ThinkingText(variant, fn_out.raw_content) # <<>>)
    => /\ Len(fn_out.thinking_parts) >= 1
       /\ \E i \in 1..Len(fn_out.thinking_parts) : fn_out.thinking_parts[i] # <<>>

\* glm: thinking text and the marker came in two chunks, the marker itself
\* split between them
C27_Witness ==
    /\ variant = "glm"
    /\ fn_out.ended
    /\ fn_in = <<  <<"x", "d">>, <<"(", "x">>  >>
    /\ fn_out.thinking_parts = << <<"x">> >>

\* ------------------------------------------------------------------- C28
EventTypes(types) == {j \in 1..Len(events) : events[j].type \in types}

FinishedDecisionAt(i) ==
    /\ events[i].type = "decision_result"
    /\ events[i].finished

\* C28: in the dual-model coordinator, a step whose decision has
\* finished=true skips the execution phase: the step has no action_start,
\* action_result or step_complete event, execute_decision is not called for
\* it, and the run ends successfully right after that step.
C28_FinishedDecisionSkipsExecution ==
    variant = "dual" =>
        \A i \in 1..Len(events) :
            FinishedDecisionAt(i) =>
                /\ \A j \in EventTypes({"action_start", "action_result", "step_complete"}) :
                        events[j].step # events[i].step
                /\ dispatched = Cardinality({j \in EventTypes({"action_start"}) : j < i})
                /\ \/ pc = "d_sleep" /\ i = Len(events)
                   \/ /\ pc = "idle"
                      /\ outcome = "returned"
                      /\ Len(events) = i + 1
                      /\ events[i + 1] = TaskComplete(events[i].step, TRUE)

C28_Witness ==
    /\ variant = "dual"
    /\ pc = "idle"
    /\ dispatched = 1
    /\ \E i \in 1..Len(events) : FinishedDecisionAt(i) /\ events[i].step = 2

\* ------------------------------------------------------------------- C29
\* the events _execute_step enqueued for step k, in queue order
DualStepEvents(k) ==
    LET OfStep(e) == e.step = k /\ e.type \notin {"task_complete", "error"}
    IN  SelectSeq(events, OfStep)

TypesOf(evs) == [i \in 1..Len(evs) |-> evs[i].type]

StepOrder ==
    <<"vision_start", "vision_recognition", "decision_start", "decision_result",
      "action_start", "action_result", "step_complete">>

CompletedSteps == {events[j].step : j \in EventTypes({"step_complete"})}

\* C29: every step of the dual-model coordinator that completes without
\* error and whose decision is not finished enqueues vision_start,
\* vision_recognition, decision_start, decision_result, action_start,
\* action_result, step_complete in that order, each exactly once, with
\* decision_thinking events only between decision_start and decision_result.
C29_StepEventOrder ==
    variant = "dual" =>
        \A k \in CompletedSteps :
            LET se == DualStepEvents(k)
                NotThinking(e) == e.type # "decision_thinking"
            IN  /\ TypesOf(SelectSeq(se, NotThinking)) = StepOrder
                /\ \A i \in 1..Len(se) :
                       se[i].type = "decision_thinking" =>
                           /\ \E a \in 1..(i - 1) : se[a].type = "decision_start"
                           /\ \E b \in (i + 1)..Len(se) : se[b].type = "decision_result"

C29_Witness ==
    /\ variant = "dual"
    /\ 2 \in CompletedSteps
    /\ \E i \in EventTypes({"decision_thinking"}) : events[i].step = 2
    /\ pc = "d_sleep"

\* ------------------------------------------------------------------- C30
ChatRequest(r) == fn_out[r]

\* C30: for POST /api/chat the agent is run only after the device lock was
\* acquired; where the acquisition succeeded the lock is released exactly
\* once, after the run, whether the agent returned or raised; where the
\* acquisition failed the agent is not run and release_device is not called.
C30_LockAroundRun ==
    \A r \in Requests :
        /\ ChatRequest(r).ran > 0 => ChatRequest(r).acquired
        /\ ChatRequest(r).pc = "run" => fn_in.holder = r /\ ChatRequest(r).released = 0
        /\ ChatRequest(r).released > 0 => ChatRequest(r).pc = "done"
        /\ ChatRequest(r).pc = "done" =>
               IF ChatRequest(r).acquired
               THEN ChatRequest(r).released = 1 /\ fn_in.holder # r
               ELSE /\ ChatRequest(r).ran = 0
                    /\ ChatRequest(r).released = 0
                    /\ ChatRequest(r).response \in {"409", "500", "failed"}

C30_Witness ==
    \E r, q \in Requests :
        /\ ChatRequest(r).pc = "done"
        /\ ChatRequest(r).ran = 1
        /\ ChatRequest(r).response = "failed"
        /\ ChatRequest(r).released = 1
        /\ ChatRequest(q).pc = "done"
        /\ ChatRequest(q).response = "409"
        /\ ChatRequest(q).released = 0

\* ------------------------------------------------------------------- C31
\* C31: a stream opened by the model call of a step is closed on every way
\* of leaving the model-call phase (normal end, cancellation, model error);
\* in particular it is closed when the run has emitted its cancelled event.
C31_StreamClosedOnExit ==
    /\ pc # "llm_stream" => ~stream_open
    /\ CountOf("cancelled") > 0 => ~stream_open

C31_Witness ==
    /\ variant = "glm"
    /\ cancel_at = "llm_stream"
    /\ outcome = "cancelled"
    /\ events[Len(events)] = CancelledEvent
    /\ ~stream_open

\* ------------------------------------------------------------------- C32
UserTurns == {i \in 1..Len(context) : context[i].role = "user"}

\* the model call of a step is about to be made
ModelCalled == pc \in {"llm_open", "llm"}

\* C32: step 1 of a run appends no observation turn of its own and each
\* later step appends exactly one, so when the model is called in step k of
\* a run the context holds exactly k user turns added by that run (stated
\* for the first run of an agent, whose context held no user turn before).
C32_OneUserTurnPerStep ==
    (runs = 1 /\ ~reset_midrun /\ ModelCalled) =>
        Cardinality(UserTurns) = step_count - start_count

\* ------------------------------------------------------------------- C33
AssistantTurns(ctx) == {i \in 1..Len(ctx) : ctx[i].role = "assistant"}

ToolTurns(ctx) == {i \in 1..Len(ctx) : ctx[i].role = "tool"}

\* every assistant tool-call turn is immediately followed by the tool turn
\* of the same call id, every tool turn follows one, no id occurs twice
PairedToolCalls(ctx) ==
    /\ \A i \in AssistantTurns(ctx) :
          /\ i < Len(ctx)
          /\ ctx[i + 1].role = "tool"
          /\ ctx[i + 1].id = ctx[i].id
    /\ \A i \in ToolTurns(ctx) : i > 1 /\ ctx[i - 1].role = "assistant"
    /\ \A i, j \in AssistantTurns(ctx) : ctx[i].id = ctx[j].id => i = j

\* the step has executed its action (or failed to) and records its turns
StepRecorded ==
    /\ variant = "gemini"
    /\ pc \in {"executing", "exec_shot"}
    /\ pc' = "step_yield"

\* C33: in the tool-call variant each step that executes an action appends
\* an assistant turn with the one tool call call_<step index>, immediately
\* followed by a tool turn with the same id whose content is the result's
\* {success, message}; so in every context each assistant tool-call turn is
\* immediately followed by its matching tool turn and no id occurs twice.
C33_ToolCallPairs ==
    [][/\ variant = "gemini" => PairedToolCalls(context')
       /\ StepRecorded =>
             LET n == Len(context') IN
             /\ n = Len(context) + 2
             /\ context'[n - 1] = Turn("assistant", FALSE, step_count)
             /\ context'[n].role = "tool"
             /\ context'[n].id = step_count
             /\ context'[n].success = cur'.result.success
             /\ context'[n].message =
                   (IF cur'.result.message = "" THEN "OK" ELSE cur'.result.message)]_vars

C33_Witness ==
    /\ variant = "gemini"
    /\ pc = "step_yield"
    /\ Cardinality(AssistantTurns(context)) = 2
    /\ \E i \in ToolTurns(context) : ~context[i].success /\ context[i].message = "OK"

\* ------------------------------------------------------------------- C34
SystemTurns(ctx) == {i \in 1..Len(ctx) : ctx[i].role = "system"}

SystemFirst(ctx) ==
    /\ Len(ctx) >= 1
    /\ ctx[1] = create_system_message
    /\ SystemTurns(ctx) = {1}

\* new keeps the turns of old in place (the last may have lost its image)
\* and has its further turns after them
AppendedTo(old, new) ==
    /\ Len(new) >= Len(old)
    /\ \A i \in 1..Len(old) :
          /\ new[i].role = old[i].role
          /\ i < Len(old) => new[i] = old[i]

\* C34: after any sequence of runs, cancel() and reset() calls the context
\* has exactly one system turn, as its first element; turns are only ever
\* appended after it, or the context is cut back to it by reset().
C34_OneSystemTurnFirst ==
    [][/\ SystemFirst(context')
       /\ \/ AppendedTo(context, context')
          \/ context' = <<create_system_message>>]_vars

\* reset() during the model call of a DSL step: the step then strips and
\* appends with the system turn as the last turn of the context
C34_Witness ==
    /\ variant = "glm"
    /\ runs = 2
    /\ reset_midrun
    /\ pc = "step_yield"
    /\ Len(context) = 2
    /\ context[2].role = "assistant"

\* ------------------------------------------------------------------- C35
RECURSIVE Concat(_)
\* "".join(parts)
Concat(parts) ==
    IF parts = <<>> THEN <<>> ELSE Head(parts) \o Concat(Tail(parts))

IsPrefix(a, b) == Len(a) <= Len(b) /\ SubSeq(b, 1, Len(a)) = a

\* the text that precedes the first marker occurrence (all of it without one)
BeforeFirstMarker(text) ==
    IF HasMarker(text) THEN SubSeq(text, 1, FirstMarker(text) - 1) ELSE text

\* C35: however the response is split into chunks, the thinking chunks the
\* streaming model call emits, concatenated in order, are a prefix of the
\* text that precedes the first marker occurrence of the whole response.
C35_ThinkingIsPrefix ==
    (variant = "glm" /\ fn_out.ended) =>
        IsPrefix(Concat(fn_out.thinking_parts), BeforeFirstMarker(fn_out.raw_content))

\* the same for responses that do not contain both kinds of marker
C35_SingleMarkerKind ==
    (/\ variant = "glm"
     /\ fn_out.ended
     /\ ~(Contains(fn_out.raw_content, FinishMarker) /\ Contains(fn_out.raw_content, DoMarker)))
    => IsPrefix(Concat(fn_out.thinking_parts), BeforeFirstMarker(fn_out.raw_content))

\* ------------------------------------------------------------------- C36
\* text is held back: the buffer kept what it received because it ends with
\* a proper prefix of a marker
HeldBack ==
    /\ variant = "glm"
    /\ ~fn_out.ended
    /\ ~fn_out.in_action_phase
    /\ fn_out.buffer # <<>>

\* the buffer as the chunk now received leaves it
NewBuffer == fn_out.buffer \o fn_in'[Len(fn_in')]

\* the step emits a non-empty thinking chunk, which begins with held-back text
EmitsHeldBack ==
    /\ HeldBack
    /\ fn_in' # fn_in
    /\ Len(fn_out'.thinking_parts) = Len(fn_out.thinking_parts) + 1
    /\ fn_out'.thinking_parts[Len(fn_out'.thinking_parts)] # <<>>

EmittedPart == fn_out'.thinking_parts[Len(fn_out'.thinking_parts)]

EndsWithMarkerPrefix(b) ==
    \E m \in {FinishMarker, DoMarker} :
       \E i \in 1..(Len(m) - 1) :
          Len(b) >= i /\ SubSeq(b, Len(b) - i + 1, Len(b)) = SubSeq(m, 1, i)

\* the chunk clears the buffer: no marker in it, no marker prefix at its end
Clears(b) ==
    /\ ~Contains(b, FinishMarker)
    /\ ~Contains(b, DoMarker)
    /\ ~EndsWithMarkerPrefix(b)

\* the stream ends with text held back: nothing is emitted for it
EndLeavesHeldBack ==
    (HeldBack /\ fn_out'.ended) => fn_out'.thinking_parts = fn_out.thinking_parts

\* C36 as stated: held-back text is emitted as thinking only when a later
\* chunk leaves the buffer neither containing a marker nor ending with a
\* marker prefix; if the stream ends before, it is never emitted.
C36_Original ==
    [][/\ EmitsHeldBack => Clears(NewBuffer)
       /\ EndLeavesHeldBack]_vars

\* C36 (amended): held-back text is emitted as thinking only when a later
\* chunk either leaves the buffer neither containing a marker nor ending
\* with a marker prefix (the whole buffer is then emitted) or brings a
\* complete marker into the buffer (the buffer text before that marker is
\* then emitted); if the stream ends before such a chunk arrives, the
\* held-back text is never emitted and is absent from the step's thinking.
C36_HeldBackText ==
    [][/\ EmitsHeldBack =>
             \/ Clears(NewBuffer) /\ EmittedPart = NewBuffer
             \/ \E m \in {FinishMarker, DoMarker} :
                   Contains(NewBuffer, m) /\ EmittedPart = SplitOnce(NewBuffer, m)[1]
       /\ EndLeavesHeldBack]_vars

\* held back with "x d", the text x is emitted when "(" completes the marker;
\* the stream then ends
C36_Witness ==
    /\ variant = "glm"
    /\ fn_in = << <<"x", "d">>, <<"(">> >>
    /\ fn_out.thinking_parts = << <<"x">> >>
    /\ fn_out.ended

\* ------------------------------------------------------------------- C37
\* abort() has been invoked during the run in progress
AbortedDuringRun == variant = "dual" /\ pc # "idle" /\ cancel_at # "none"

\* C37: in the dual-model coordinator, once abort() has been invoked during
\* run() no new step begins: step_count does not increase any more, the run
\* does not enter the vision stage of another step, and a device action is
\* dispatched only by the step that was in progress.
C37_NoStepAfterAbort ==
    [][AbortedDuringRun =>
          /\ step_count' = step_count
          /\ pc' = "d_vision" => pc = "d_vision"
          /\ dispatched' # dispatched => pc = "d_execute"]_vars

\* the same for an abort() that comes after run() has cleared the stop flag
C37_AbortAfterClear ==
    [][(variant = "dual" /\ pc \notin {"idle", "d_start"} /\ cancel_event) =>
          /\ step_count' = step_count
          /\ pc' = "d_vision" => pc = "d_vision"
          /\ dispatched' # dispatched => pc = "d_execute"]_vars

\* ------------------------------------------------------------------- C38
DualTerminal == {"task_complete", "error", "aborted"}

\* C38: every run() of the dual-model coordinator that has returned put
\* exactly one terminal event (task_complete, error or aborted) on the
\* queue, as the last event it enqueued; runs stopped by abort() and runs
\* that exhaust max_steps included.
C38_OneTerminalEvent ==
    (variant = "dual" /\ pc = "idle" /\ outcome = "returned") =>
        /\ Cardinality(EventTypes(DualTerminal)) = 1
        /\ events[Len(events)].type \in DualTerminal

\* the same for the runs during which abort() was not invoked
C38_UnlessAborted ==
    (variant = "dual" /\ pc = "idle" /\ outcome = "returned" /\ cancel_at = "none") =>
        /\ Cardinality(EventTypes(DualTerminal)) = 1
        /\ events[Len(events)].type \in DualTerminal

\* ------------------------------------------------------------------- C39
\* the SSE output of one POST /api/chat/stream request, by event type:
\* event_generator sends every event of agent.stream() under its own type,
\* and its except clauses add a cancelled event when stream() ends with
\* CancelledError and an error event when it ends with another exception
SSEOutput ==
    TypesOf(events) \o
    (CASE outcome = "cancelled" -> <<"cancelled">>
       [] outcome = "crashed" -> <<"error">>
       [] OTHER -> <<>>)

SSETerminals == {i \in 1..Len(SSEOutput) : SSEOutput[i] \in {"done", "cancelled"}}

\* C39: the SSE output of one request contains at most one terminal event
\* (done or cancelled), so a cancelled run is reported by exactly one
\* cancelled event, and nothing is sent after it.
C39_OneTerminalSSE ==
    /\ Cardinality(SSETerminals) <= 1
    /\ \A i \in SSETerminals : i = Len(SSEOutput)

\* the same for the runs that do not end with CancelledError
C39_UnlessCancelled ==
    outcome # "cancelled" =>
        /\ Cardinality(SSETerminals) <= 1
        /\ \A i \in SSETerminals : i = Len(SSEOutput)

\* C40: after any sequence of create_task, update_task, set_enabled and
\* delete_task the scheduler holds a job with id t if and only if task t
\* exists, is enabled and has a valid 5-field cron expression, and the
\* trigger of that job is the one built from the task's current expression.
ValidCron(c) ==
    /\ Len(split(c)) = 5
    /\ ~CronTriggerRaises(split(c))

Schedulable(t) ==
    /\ t \in DOMAIN fn_in.tasks
    /\ fn_in.tasks[t].enabled
    /\ ValidCron(fn_in.tasks[t].cron_expression)

C40_JobIffSchedulable ==
    \A t \in TaskIds :
        /\ t \in DOMAIN fn_out <=> Schedulable(t)
        /\ t \in DOMAIN fn_out =>
               fn_out[t] = CronTrigger(split(fn_in.tasks[t].cron_expression))

\* every id was handed out, task 2 was deleted again, and task 1 is enabled
\* with a valid expression whose minute field is 0 and holds that job
C40_Witness ==
    /\ 1 \in DOMAIN fn_out
    /\ Schedulable(1)
    /\ fn_out[1].minute = "0"
    /\ fn_in.created = MaxTasks
    /\ 2 \notin DOMAIN fn_in.tasks

====
